---- MODULE Spec2Model ----
(***************************************************************************)
(* Model of server/server.js of local-grammar-translate: the two NDJSON    *)
(* streaming endpoints (/api/fix-stream, /api/translate-stream), their     *)
(* bounded concurrent dispatcher, the configuration endpoint and the       *)
(* Ollama availability monitor they depend on.                             *)
(*                                                                         *)
(* Node runs every callback to completion, so one action of the model is   *)
(* one macrotask of the event loop together with the promise reactions     *)
(* (microtasks) it triggers.                                               *)
(***************************************************************************)
EXTENDS Integers, Sequences, FiniteSets, TLC

(***************************************************************************)
(* Bounds of the model.                                                    *)
(***************************************************************************)
\* Largest number of blank-line separated pieces in a request text.
MaxParas == 3
\* Largest number of POST /api/config calls in one behaviour.
MaxConfigPosts == 1
\* The longest unit list chunkTranslationItems is applied to on its own.
MaxItems == 5
\* The longest model output taken character by character, and the most
\* blank-line separated parts of an output without JSON.
MaxOutLen == 3
MaxParts == 3
\* The longest text the segmentation is applied to character by character.
MaxTextLen == 5
\* The most characters a child process writes to stdout, and to stderr.
MaxChunks == 2
\* The most paragraphs of each of two requests handled at the same time.
PairParas == 2

(***************************************************************************)
(* JavaScript values.  A number is kept in halves (n = 2 * value) so that  *)
(* a fractional setting such as 1.5 is representable; NaN is its own tag.  *)
(***************************************************************************)
Undef == [t |-> "undef"]
NaN == [t |-> "nan"]
Num(halves) == [t |-> "num", n |-> halves]
Whole(i) == Num(2 * i)
Str(s) == [t |-> "str", s |-> s]
Bool(b) == [t |-> "bool", b |-> b]

\* The strings the model uses, with the number each denotes under Number().
NumericStrings == {"1", "2", "1.5", "0"}
StrHalves(s) ==
  CASE s = "1" -> 2
    [] s = "2" -> 4
    [] s = "1.5" -> 3
    [] s = "0" -> 0
    [] OTHER -> 0

\* JavaScript truthiness, as used by `x || fallback`.
Truthy(v) ==
  CASE v.t = "undef" -> FALSE
    [] v.t = "nan" -> FALSE
    [] v.t = "num" -> v.n # 0
    [] v.t = "str" -> v.s # ""
    [] v.t = "bool" -> v.b
    [] OTHER -> FALSE

\* a || b
OrElse(a, b) == IF Truthy(a) THEN a ELSE b

\* Number(v)
ToNumber(v) ==
  CASE v.t = "undef" -> NaN
    [] v.t = "nan" -> NaN
    [] v.t = "num" -> v
    [] v.t = "str" -> IF v.s = "" THEN Num(0)
                      ELSE IF v.s \in NumericStrings THEN Num(StrHalves(v.s))
                      ELSE NaN
    [] v.t = "bool" -> IF v.b THEN Whole(1) ELSE Whole(0)
    [] OTHER -> NaN

\* Math.max(a, b) of two numbers: NaN if either is NaN.
MathMax(a, b) ==
  IF a.t = "nan" \/ b.t = "nan" THEN NaN
  ELSE IF a.n >= b.n THEN a ELSE b

\* The comparison `count < limit` of an integer count with a number:
\* every comparison with NaN is false.
LessThan(count, limit) == limit.t = "num" /\ 2 * count < limit.n

(***************************************************************************)
(* Configuration (server.js 94-128, 461-488).                              *)
(***************************************************************************)
\* raw && raw[key]: a key the object does not have reads as undefined.
Get(raw, key) == IF key \in DOMAIN raw THEN raw[key] ELSE Undef

\* { ...a, ...b }
Spread(a, b) ==
  [k \in (DOMAIN a) \cup (DOMAIN b) |-> IF k \in DOMAIN b THEN b[k] ELSE a[k]]

\* String(v) for the values a host setting takes.
JsString(v) ==
  CASE v.t = "str" -> v
    [] v.t = "num" -> Str("<number>")
    [] v.t = "bool" -> IF v.b THEN Str("true") ELSE Str("false")
    [] OTHER -> Str("<other>")

parseBool(val, fallback) ==
  CASE val.t = "bool" -> val
    [] val.t = "undef" -> Bool(fallback)
    [] val.t = "str" -> Bool(val.s \in {"1", "true", "yes", "on"})
    [] val.t = "num" -> Bool(val.n = 2)
    [] OTHER -> Bool(FALSE)

normalizeConfig(raw) ==
  [OLLAMA_HOST |-> JsString(OrElse(Get(raw, "OLLAMA_HOST"), Str("127.0.0.1"))),
   OLLAMA_PORT |-> ToNumber(OrElse(Get(raw, "OLLAMA_PORT"), Whole(11434))),
   OLLAMA_AUTOSTART |-> parseBool(OrElse(Get(raw, "OLLAMA_AUTOSTART"), Bool(FALSE)), FALSE),
   OLLAMA_START_TIMEOUT_MS |->
     ToNumber(OrElse(Get(raw, "OLLAMA_START_TIMEOUT_MS"), Whole(15000))),
   OLLAMA_RUN_TIMEOUT_MS |->
     ToNumber(OrElse(Get(raw, "OLLAMA_RUN_TIMEOUT_MS"), Whole(120000))),
   OLLAMA_CONCURRENCY |->
     MathMax(Whole(1), ToNumber(OrElse(Get(raw, "OLLAMA_CONCURRENCY"), Whole(2))))]

(***************************************************************************)
(* Text: a string is a sequence of one-character strings.                  *)
(***************************************************************************)
IsSpace(c) == c \in {" ", "\n"}

\* String.prototype.trim
RECURSIVE TrimLeft(_)
TrimLeft(s) ==
  IF s # <<>> /\ IsSpace(Head(s)) THEN TrimLeft(Tail(s)) ELSE s
RECURSIVE TrimRight(_)
TrimRight(s) ==
  IF s # <<>> /\ IsSpace(s[Len(s)]) THEN TrimRight(SubSeq(s, 1, Len(s) - 1)) ELSE s
Trim(s) == TrimRight(TrimLeft(s))

\* The end of the match of /\n\s*\n+/ that starts at position p of t, or 0 when
\* there is none: t[p] is a newline, \s* runs over the white space that follows
\* and backtracks to the last newline of that run, which \n+ takes.
SeparatorEnd(t, p) ==
  IF p > Len(t) \/ t[p] # "\n" THEN 0
  ELSE LET run == {q \in (p + 1)..Len(t) : \A j \in (p + 1)..q : IsSpace(t[j])}
           nls == {q \in run : t[q] = "\n"}
       IN  IF nls = {} THEN 0 ELSE CHOOSE q \in nls : \A o \in nls : o <= q

\* text.split(/\n\s*\n+/): the pieces between successive leftmost matches.
RECURSIVE SplitFrom(_, _, _)
SplitFrom(t, pieceStart, p) ==
  IF p > Len(t) THEN <<SubSeq(t, pieceStart, Len(t))>>
  ELSE LET e == SeparatorEnd(t, p)
       IN  IF e = 0 THEN SplitFrom(t, pieceStart, p + 1)
           ELSE <<SubSeq(t, pieceStart, p - 1)>> \o SplitFrom(t, e + 1, e + 1)
Split(t) == SplitFrom(t, 1, 1)

\* text.split(/\n\s*\n+/).filter(Boolean)
Segment(t) == SelectSeq(Split(t), LAMBDA piece : piece # <<>>)

\* String.prototype.length of the trimmed paragraph.
TextLength(s) == Len(s)

(***************************************************************************)
(* Translation chunking (server.js 179-220).                               *)
(***************************************************************************)
\* Math.floor of a number kept in halves, as an integer.
Floor(v) == IF v.n >= 0 THEN v.n \div 2 ELSE -((1 - v.n) \div 2)
Min(a, b) == IF a <= b THEN a ELSE b
Max(a, b) == IF a >= b THEN a ELSE b

\* The caps of normalizeChunkOptions.
MaxParagraphsCap == 20
MaxCharsCap == 20000

\* `raw && typeof raw === "object"`: a tagged value is a primitive, anything
\* else is an object of settings.
IsObject(raw) == "t" \notin DOMAIN raw

\* normalizeChunkOptions without its Math.min caps.
normalizeChunkOptionsUncapped(raw) ==
  IF ~IsObject(raw) THEN [maxParagraphs |-> 1, maxChars |-> 0]
  ELSE
  LET mp == ToNumber(Get(raw, "maxParagraphs"))
      mc == ToNumber(Get(raw, "maxChars"))
  IN  [maxParagraphs |-> IF mp.t = "num" /\ mp.n > 0 THEN Max(1, Floor(mp)) ELSE 1,
       maxChars |-> IF mc.t = "num" /\ mc.n >= 0 THEN Max(0, Floor(mc)) ELSE 0]

normalizeChunkOptions(raw) ==
  IF ~IsObject(raw) THEN [maxParagraphs |-> 1, maxChars |-> 0]
  ELSE
  LET mp == ToNumber(Get(raw, "maxParagraphs"))
      mc == ToNumber(Get(raw, "maxChars"))
  IN  [maxParagraphs |->
         IF mp.t = "num" /\ mp.n > 0 THEN Max(1, Min(MaxParagraphsCap, Floor(mp))) ELSE 1,
       maxChars |->
         IF mc.t = "num" /\ mc.n >= 0 THEN Max(0, Min(MaxCharsCap, Floor(mc))) ELSE 0]

\* The loop of chunkTranslationItems over items[i..], with the chunk being
\* built (current), its character count and the chunks closed so far.
RECURSIVE ChunkLoop(_, _, _, _, _, _)
ChunkLoop(items, i, opts, chunks, current, charCount) ==
  IF i > Len(items) THEN (IF Len(current) > 0 THEN Append(chunks, current) ELSE chunks)
  ELSE LET item == items[i]
           len == TextLength(item.text)
           limitParagraphs == Max(1, opts.maxParagraphs)
           exceedsParagraphs == Len(current) >= limitParagraphs
           exceedsChars ==
             opts.maxChars > 0 /\ Len(current) > 0 /\ charCount + len > opts.maxChars
       IN  IF (exceedsParagraphs \/ exceedsChars) /\ Len(current) > 0
           THEN ChunkLoop(items, i + 1, opts, Append(chunks, current), <<item>>, len)
           ELSE ChunkLoop(items, i + 1, opts, chunks, Append(current, item), charCount + len)

\* chunkTranslationItems that ignores the character limit.
chunkTranslationItemsNoCharLimit(items, opts) ==
  ChunkLoop(items, 1, [opts EXCEPT !.maxChars = 0], <<>>, <<>>, 0)

\* chunkTranslationItems without the push after the loop: the chunk being built
\* when the items run out is lost.
chunkTranslationItemsNoFlush(items, opts) ==
  LET all == ChunkLoop(items, 1, opts, <<>>, <<>>, 0)
  IN  SubSeq(all, 1, Len(all) - 1)

chunkTranslationItems(items, opts) == ChunkLoop(items, 1, opts, <<>>, <<>>, 0)

(***************************************************************************)
(* Requests.                                                               *)
(***************************************************************************)
Modes == {"fix", "translate"}

\* The pieces request texts are built from, joined by a blank line.
Pieces == {<<"a">>, <<>>}
BlankLine == <<"\n", "\n">>
RECURSIVE JoinPieces(_)
JoinPieces(ps) ==
  IF Len(ps) = 0 THEN <<>>
  ELSE IF Len(ps) = 1 THEN ps[1]
  ELSE ps[1] \o BlankLine \o JoinPieces(Tail(ps))
\* Every such text, and the text of one space.
Texts ==
  {JoinPieces(ps) : ps \in UNION {[1..n -> Pieces] : n \in 1..MaxParas}} \cup {<<" ">>}

EmptyObject == [k \in {} |-> Undef]
\* The values of options.chunking the requests carry.
RawChunkings == {EmptyObject, [maxParagraphs |-> Whole(2)]}

\* A request body: text may be absent; chunking is read by translate-stream.
Bodies ==
  {[hasText |-> TRUE, text |-> t, chunking |-> c] : t \in Texts, c \in RawChunkings}
    \cup {[hasText |-> FALSE, text |-> <<>>, chunking |-> EmptyObject]}

\* What runOllama resolves with for a grammar prompt: its trimmed output.
FixOutputs == {<<>>, <<"b">>}

VARIABLES
  CONFIG,        \* the process-wide configuration object
  configPosts,   \* POST /api/config calls handled so far
  ollamaProc,    \* the remembered `ollama serve` child: "null" or "child"
  phase,         \* where the request handler is: idle, probe, wait, failing, streaming,
                 \* done; crashed when Node exited
  mode,          \* which endpoint handles the request
  body,          \* req.body
  paragraphs,    \* text.split(...).filter(Boolean)
  jobs,          \* fix: one unit per paragraph; translate: the chunks
  results,       \* the slot array: a function on the filled indices
  nextToStart,   \* nextToStart (fix-stream), nextChunk (translate-stream)
  nextToEmit,
  inFlight,
  pending,       \* the jobs whose runOllama promise has not settled
  emitters,      \* emitReady runs suspended at their pacing delay
  status,        \* HTTP status sent: 0 none yet, 200 stream headers, 400, 503
  sink,          \* the NDJSON lines written to res
  ended,         \* res.end() was called on the stream
  usedConfig,    \* history: job -> CONFIG when it was launched
  outcome,       \* history: job -> how its invocation settled
  faulted        \* history: a callback of the dispatcher threw

\* One call of a pure function of the server, applied on its own.
VARIABLES
  fn,            \* the function applied: "chunk", "parse" or "segment"; "none" in the server
  args,          \* its arguments
  ret            \* [done |-> FALSE] until it returned, then [done |-> TRUE, value |-> ...]

benchVars == <<fn, args, ret>>

\* One call of runOllama (server.js 382-430).
VARIABLES
  child,         \* the `ollama run` process: [state |-> none | running | failed | closed, signalled]
  timer,         \* the timeout timer: none, armed, fired, cleared
  timedOut,
  outBuf,        \* `out`, the accumulated stdout
  errBuf,        \* accumulated stderr
  promise,       \* the promise runOllama returned: [state |-> pending | resolved | rejected, ...]
  events         \* history: what happened to the call, in order

runVars == <<child, timer, timedOut, outBuf, errBuf, promise, events>>

\* The callers of ensureOllamaRunning (server.js 370-380).
VARIABLES
  ensure,        \* caller -> its call: pc (idle, probe, wait, returned, crashed),
                 \* maybeStart, ret, the clock of waitForReachable, and history
  spawns,        \* history: CONFIG.OLLAMA_HOST at each spawn of `ollama serve`
  serveRunning   \* the `ollama serve` process the server spawned is running

monitorVars == <<ensure, spawns, serveRunning>>

\* Two streaming requests handled at the same time (server.js 490-516 and
\* 637-683).
VARIABLES
  reqs,          \* request -> what belongs to the call of the handler: mode, paragraphs,
                 \* jobs, its pending invocations and timers, its response (sink, ended)
  dispatch,      \* scope -> the variables results, nextToStart, nextToEmit, inFlight
  actor          \* history: the request whose callback ran last

pairVars == <<reqs, dispatch, actor>>

\* The server's own variables.
serverVars ==
  <<CONFIG, configPosts, ollamaProc, phase, mode, body, paragraphs, jobs, results,
    nextToStart, nextToEmit, inFlight, pending, emitters, status, sink, ended,
    usedConfig, outcome, faulted>>

vars == <<serverVars, benchVars, runVars, monitorVars, pairVars>>

total == Len(paragraphs)

\* The environment and config.json values the server may start with.
StartupRaws == {EmptyObject, [OLLAMA_CONCURRENCY |-> Whole(1)]}

\* The server after start, no request received yet, whatever its CONFIG.
ServerIdle ==
  /\ configPosts = 0
  /\ ollamaProc = "null"
  /\ phase = "idle"
  /\ mode = "fix"
  /\ body = [hasText |-> FALSE, text |-> <<>>, chunking |-> EmptyObject]
  /\ paragraphs = <<>>
  /\ jobs = <<>>
  /\ results = EmptyObject
  /\ nextToStart = 0
  /\ nextToEmit = 0
  /\ inFlight = 0
  /\ pending = {}
  /\ emitters = 0
  /\ status = 0
  /\ sink = <<>>
  /\ ended = FALSE
  /\ usedConfig = EmptyObject
  /\ outcome = EmptyObject
  /\ faulted = FALSE

\* CONFIG = normalizeConfig({ ...ENV_DEFAULTS, ...FILE_DEFAULTS }) on raw settings.
StartConfig(raw) == normalizeConfig(Spread(normalizeConfig(raw), EmptyObject))

ServerInit == CONFIG \in {StartConfig(raw) : raw \in StartupRaws} /\ ServerIdle

\* No pure function is applied on its own.
BenchIdle == fn = "none" /\ args = <<>> /\ ret = [done |-> FALSE]

\* No runOllama call is followed step by step.
RunIdle ==
  /\ child = [state |-> "none", signalled |-> FALSE]
  /\ timer = "none"
  /\ timedOut = FALSE
  /\ outBuf = <<>>
  /\ errBuf = <<>>
  /\ promise = [state |-> "pending"]
  /\ events = <<>>

\* No ensureOllamaRunning call is followed step by step.
\* GET /api/health and a streaming request.
Callers == {"health", "stream"}
IdleCall ==
  [pc |-> "idle", maybeStart |-> FALSE, ret |-> EmptyObject, probe |-> "none",
   autostart |-> FALSE, launch |-> "none", clock |-> "none", polled |-> "none",
   procAtCall |-> "null", spawnsAtCall |-> 0]
MonitorIdle ==
  /\ ensure = [c \in Callers |-> IdleCall]
  /\ spawns = <<>>
  /\ serveRunning = FALSE

\* The requests of the pair, and the state a handler call begins with.
Requests == {"A", "B"}
IdleRequest ==
  [mode |-> "fix", paragraphs |-> <<>>, jobs |-> <<>>, begun |-> FALSE, pending |-> {},
   emitters |-> 0, sink |-> <<>>, ended |-> FALSE]
NewDispatcher ==
  [results |-> EmptyObject, nextToStart |-> 0, nextToEmit |-> 0, inFlight |-> 0]

\* No pair of requests is followed.
PairIdle ==
  /\ reqs = [r \in Requests |-> IdleRequest]
  /\ dispatch = [r \in Requests |-> NewDispatcher]
  /\ actor = "none"

Init == ServerInit /\ BenchIdle /\ RunIdle /\ MonitorIdle /\ PairIdle

(***************************************************************************)
(* Units, chunks and the shaping of results.                               *)
(***************************************************************************)
\* paragraphs.map((para, index) => ({ index, text: para.trim() }))
Items(paras) == [i \in 1..Len(paras) |-> [index |-> i - 1, text |-> Trim(paras[i])]]

\* fix-stream launches one invocation per paragraph.
FixJobs(paras) == [i \in 1..Len(paras) |-> <<Items(paras)[i]>>]

\* chunk.map((item) => item.index)
IndicesOf(job) == [j \in 1..Len(job) |-> job[j].index]
IndexSet(job) == {job[j].index : j \in 1..Len(job)}

\* The text written for a failed invocation, kept as one token.
ErrorMarker == <<"(error)">>

\* The output of a translation call is text in which a JSON object is kept as
\* one token: JsonPayload gives what JSON.parse makes of it.  The objects name
\* every index with "b", index 0 with "c", an index no request has, and an
\* index that is not a number.
JsonTokens == {"{*:b}", "{0:c}", "{9:c}", "{x:c}"}
JsonPayload(tok) ==
  CASE tok = "{*:b}" ->
         [translations |->
            [i \in 1..MaxParas |-> [index |-> Whole(i - 1), hasText |-> TRUE, text |-> <<"b">>]]]
    [] tok = "{0:c}" ->
         [translations |-> <<[index |-> Whole(0), hasText |-> TRUE, text |-> <<"c">>]>>]
    [] tok = "{9:c}" ->
         [translations |-> <<[index |-> Whole(9), hasText |-> TRUE, text |-> <<" ", "c">>]>>]
    [] tok = "{x:c}" ->
         [translations |-> <<[index |-> Str("x"), hasText |-> FALSE, text |-> <<>>]>>]
    [] OTHER -> EmptyObject

\* The three backquotes of a Markdown code fence, kept as one token.
Fence == "<fence>"

\* What runOllama resolves with for a translation prompt.
TranslateOutputs(job) == {<<>>, <<"{*:b}">>, <<"{0:c}">>, <<"b">>}

stripFence(text) ==
  LET trimmed == Trim(text)
      breaks == {k \in 1..Len(trimmed) : trimmed[k] = "\n"}
      fences == {k \in 1..Len(trimmed) : trimmed[k] = Fence}
  IN  IF trimmed # <<>> /\ trimmed[1] = Fence /\ breaks # {}
      THEN LET firstBreak == CHOOSE k \in breaks : \A o \in breaks : k <= o
               lastFence == CHOOSE k \in fences : \A o \in fences : o <= k
           IN  IF lastFence > firstBreak
               THEN Trim(SubSeq(trimmed, firstBreak + 1, lastFence - 1))
               ELSE trimmed
      ELSE trimmed

\* JSON.parse(cleaned), and on failure JSON.parse of the slice from the first
\* "{" to the last "}": an object when that text is exactly one object.
JsonParse(cleaned) ==
  LET objects == {k \in 1..Len(cleaned) : cleaned[k] \in JsonTokens}
  IN  IF Cardinality(objects) = 1
      THEN JsonPayload(cleaned[CHOOSE k \in objects : TRUE])
      ELSE EmptyObject

\* The entries of payload.translations whose index is an integer.
NormEntries(translations) ==
  LET isInt(e) == ToNumber(e.index).t = "num" /\ ToNumber(e.index).n % 2 = 0
      kept == SelectSeq(translations, isInt)
  IN  [k \in 1..Len(kept) |->
         [index |-> ToNumber(kept[k].index).n \div 2,
          text |-> IF kept[k].hasText THEN Trim(kept[k].text) ELSE <<>>]]

\* cleaned.split(/\n{2,}|\r?\n\r?\n/): the pieces between runs of two or more
\* newlines.
RECURSIVE SplitBlank(_, _, _)
SplitBlank(t, pieceStart, p) ==
  IF p > Len(t) THEN <<SubSeq(t, pieceStart, Len(t))>>
  ELSE IF t[p] = "\n" /\ p < Len(t) /\ t[p + 1] = "\n"
  THEN LET e == CHOOSE q \in (p + 1)..Len(t) :
                  /\ \A k \in p..q : t[k] = "\n"
                  /\ q = Len(t) \/ t[q + 1] # "\n"
       IN  <<SubSeq(t, pieceStart, p - 1)>> \o SplitBlank(t, e + 1, e + 1)
  ELSE SplitBlank(t, pieceStart, p + 1)

\* .split(...).map((p) => p.trim()).filter(Boolean)
FallbackParts(cleaned) ==
  LET pieces == SplitBlank(cleaned, 1, 1)
  IN  SelectSeq([k \in 1..Len(pieces) |-> Trim(pieces[k])], LAMBDA piece : piece # <<>>)

\* parseTranslationPayload up to its fallback: the entries the JSON gives
\* (norm) and the parts of the text between blank lines.
ParsedText(raw) ==
  LET cleaned == stripFence(raw)
      payload == JsonParse(cleaned)
  IN  [norm |-> IF "translations" \in DOMAIN payload
                THEN NormEntries(payload.translations) ELSE <<>>,
       parts |-> FallbackParts(cleaned)]

\* ParsedText of the outputs the server model draws, computed once.
ServerParsedTexts == [raw \in TranslateOutputs(<<>>) |-> ParsedText(raw)]

\* parseTranslationPayload whose fallback maps over the parts instead of the
\* chunk's indices: no padding.
parseTranslationPayloadNoPadding(raw, fallbackOrder) ==
  IF raw = <<>> THEN <<>>
  ELSE LET parsedText == ParsedText(raw)
       IN  IF Len(parsedText.norm) > 0 THEN parsedText.norm
           ELSE [i \in 1..Min(Len(parsedText.parts), Len(fallbackOrder)) |->
                   [index |-> fallbackOrder[i], text |-> parsedText.parts[i]]]

parseTranslationPayload(raw, fallbackOrder) ==
  IF raw = <<>> THEN <<>>
  ELSE LET parsedText == IF raw \in DOMAIN ServerParsedTexts
                         THEN ServerParsedTexts[raw] ELSE ParsedText(raw)
       IN  IF Len(parsedText.norm) > 0 THEN parsedText.norm
           ELSE [i \in 1..Len(fallbackOrder) |->
                   [index |-> fallbackOrder[i],
                    text |-> IF i <= Len(parsedText.parts)
                             THEN parsedText.parts[i] ELSE <<>>]]

\* byIndex of the translate-stream .then handler: the last entry naming an
\* allowed index wins.
ByIndex(parsed, allowed) ==
  [idx \in {parsed[i].index : i \in 1..Len(parsed)} \cap allowed |->
     LET hits == {i \in 1..Len(parsed) : parsed[i].index = idx}
     IN  Trim(parsed[CHOOSE i \in hits : \A o \in hits : o <= i].text)]

\* results after the .then / .catch handler of job k ran on the slot array res.
\* (`corrected || ""` of an output string is that string.)
FixThen(res, job, out) ==
  LET i == job[1].index
  IN  [x \in DOMAIN res \cup {i} |->
         IF x = i THEN [index |-> i, original |-> job[1].text, corrected |-> out]
         ELSE res[x]]

\* FixCatch without the marker: the failure is passed over in silence.
FixCatchSilent(res, job) ==
  LET i == job[1].index
  IN  [x \in DOMAIN res \cup {i} |->
         IF x = i THEN [index |-> i, original |-> job[1].text, corrected |-> <<>>]
         ELSE res[x]]

\* FixCatch that records nothing.
FixCatchNothing(res, job) == res

FixCatch(res, job) ==
  LET i == job[1].index
  IN  [x \in DOMAIN res \cup {i} |->
         IF x = i THEN [index |-> i, original |-> job[1].text, corrected |-> ErrorMarker]
         ELSE res[x]]

\* TranslateThen that fills only the slots the output gives a text for.
TranslateThenRecoveredOnly(res, job, out) ==
  LET byIndex == ByIndex(parseTranslationPayload(out, IndicesOf(job)), IndexSet(job))
  IN  [x \in DOMAIN res \cup DOMAIN byIndex |->
         IF x \in DOMAIN res THEN res[x] ELSE [index |-> x, translated |-> byIndex[x]]]

\* TranslateThen without the test `allowed.has(entry.index)`: it fills the
\* empty slot of every index the output names.
TranslateThenAnyIndex(res, job, out) ==
  LET parsed == parseTranslationPayload(out, IndicesOf(job))
      byIndex == ByIndex(parsed, {parsed[i].index : i \in 1..Len(parsed)})
  IN  [x \in DOMAIN res \cup IndexSet(job) \cup DOMAIN byIndex |->
         IF x \in DOMAIN res THEN res[x]
         ELSE [index |-> x,
               translated |-> IF x \in DOMAIN byIndex THEN byIndex[x] ELSE <<>>]]

TranslateThen(res, job, out) ==
  LET byIndex == ByIndex(parseTranslationPayload(out, IndicesOf(job)), IndexSet(job))
  IN  [x \in DOMAIN res \cup IndexSet(job) |->
         IF x \in DOMAIN res THEN res[x]
         ELSE [index |-> x,
               translated |-> IF x \in DOMAIN byIndex THEN byIndex[x] ELSE <<>>]]

TranslateCatch(res, job) ==
  [x \in DOMAIN res \cup IndexSet(job) |->
     IF x \in DOMAIN res THEN res[x] ELSE [index |-> x, translated |-> ErrorMarker]]

\* The ways the invocation of a job can settle, each with the slot array it
\* leaves: resolved with some output, or rejected (a failed run or
\* ollama_run_timeout, which the .catch handlers do not tell apart).
SettlementsOf(m, res, job) ==
  IF m = "fix"
  THEN {[kind |-> "ok", results |-> FixThen(res, job, out)] : out \in FixOutputs}
         \cup {[kind |-> "rejected", results |-> FixCatch(res, job)]}
  ELSE {[kind |-> "ok", results |-> TranslateThen(res, job, out)] :
          out \in TranslateOutputs(job)}
         \cup {[kind |-> "rejected", results |-> TranslateCatch(res, job)]}

Settlements(res, job) == SettlementsOf(mode, res, job)

\* The text of a result line, whichever endpoint wrote it.
TextOf(line) == IF "corrected" \in DOMAIN line THEN line.corrected ELSE line.translated

(***************************************************************************)
(* The dispatcher (server.js 571-628 and 685-749).                         *)
(***************************************************************************)
\* The loop condition of emitReady on the slot array res.
ReadyToEmit(res) == nextToEmit < total /\ nextToEmit \in DOMAIN res

\* How many invocations the loop of launchNext starts.
RECURSIVE LaunchCount(_, _, _, _)
LaunchCount(inF, next, njobs, limit) ==
  IF LessThan(inF, limit) /\ next < njobs
  THEN 1 + LaunchCount(inF + 1, next + 1, njobs, limit)
  ELSE 0

\* launchNext that passes over the job after the ones it starts.
launchNextSkipping(inF, pend, njobs) ==
  LET m == LaunchCount(inF, nextToStart, njobs, CONFIG.OLLAMA_CONCURRENCY)
      started == nextToStart..(nextToStart + m - 1)
      skipped == IF m > 0 /\ nextToStart + m < njobs THEN 1 ELSE 0
  IN  /\ nextToStart' = nextToStart + m + skipped
      /\ inFlight' = inF + m
      /\ pending' = pend \cup started
      /\ usedConfig' = [k \in DOMAIN usedConfig \cup started |->
                          IF k \in started THEN CONFIG ELSE usedConfig[k]]

\* launchNext(), run with inF invocations in flight and pend their jobs.
launchNext(inF, pend, njobs) ==
  LET m == LaunchCount(inF, nextToStart, njobs, CONFIG.OLLAMA_CONCURRENCY)
      started == nextToStart..(nextToStart + m - 1)
  IN  /\ nextToStart' = nextToStart + m
      /\ inFlight' = inF + m
      /\ pending' = pend \cup started
      /\ usedConfig' = [k \in DOMAIN usedConfig \cup started |->
                          IF k \in started THEN CONFIG ELSE usedConfig[k]]

\* emitReady that writes whichever result is there, the latest index first.
emitReadyUnordered(res, inF, pend, resumed) ==
  LET avail == {i \in DOMAIN res : \A j \in 1..Len(sink) : sink[j].index # i}
  IN  IF avail # {}
      THEN /\ sink' = Append(sink, res[CHOOSE i \in avail : \A o \in avail : o <= i])
           /\ nextToEmit' = nextToEmit + 1
           /\ emitters' = IF resumed THEN emitters ELSE emitters + 1
           /\ nextToStart' = nextToStart
           /\ inFlight' = inF
           /\ pending' = pend
           /\ usedConfig' = usedConfig
      ELSE /\ sink' = sink
           /\ nextToEmit' = nextToEmit
           /\ emitters' = IF resumed THEN emitters - 1 ELSE emitters
           /\ launchNext(inF, pend, Len(jobs))

\* emitReady whose caller does not run launchNext() afterwards.
emitReadyNoBackfill(res, inF, pend, resumed) ==
  IF ReadyToEmit(res)
  THEN /\ sink' = Append(sink, res[nextToEmit])
       /\ nextToEmit' = nextToEmit + 1
       /\ emitters' = IF resumed THEN emitters ELSE emitters + 1
       /\ nextToStart' = nextToStart
       /\ inFlight' = inF
       /\ pending' = pend
       /\ usedConfig' = usedConfig
  ELSE /\ sink' = sink
       /\ nextToEmit' = nextToEmit
       /\ emitters' = IF resumed THEN emitters - 1 ELSE emitters
       /\ nextToStart' = nextToStart
       /\ inFlight' = inF
       /\ pending' = pend
       /\ usedConfig' = usedConfig

\* emitReady that writes one line and returns instead of looping.
emitReadyOneLine(res, inF, pend, resumed) ==
  IF ReadyToEmit(res)
  THEN /\ sink' = Append(sink, res[nextToEmit])
       /\ nextToEmit' = nextToEmit + 1
       /\ emitters' = IF resumed THEN emitters - 1 ELSE emitters
       /\ launchNext(inF, pend, Len(jobs))
  ELSE /\ sink' = sink
       /\ nextToEmit' = nextToEmit
       /\ emitters' = IF resumed THEN emitters - 1 ELSE emitters
       /\ launchNext(inF, pend, Len(jobs))

\* emitReady whose loop tests the cursor only: it counts a slot that is
\* still empty as emitted and writes nothing for it.
emitReadyCountsEmpty(res, inF, pend, resumed) ==
  IF nextToEmit < total
  THEN /\ sink' = IF nextToEmit \in DOMAIN res THEN Append(sink, res[nextToEmit])
                  ELSE sink
       /\ nextToEmit' = nextToEmit + 1
       /\ emitters' = IF resumed THEN emitters ELSE emitters + 1
       /\ nextToStart' = nextToStart
       /\ inFlight' = inF
       /\ pending' = pend
       /\ usedConfig' = usedConfig
  ELSE /\ sink' = sink
       /\ nextToEmit' = nextToEmit
       /\ emitters' = IF resumed THEN emitters - 1 ELSE emitters
       /\ launchNext(inF, pend, Len(jobs))

\* `await emitReady(); launchNext();` from the loop test of emitReady: one
\* iteration writes the next line and suspends at the pacing delay; when no
\* line is ready emitReady returns and launchNext runs.  resumed tells a run
\* resumed by its timer from one begun by a completion.
emitReady(res, inF, pend, resumed) ==
  IF ReadyToEmit(res)
  THEN /\ sink' = Append(sink, res[nextToEmit])
       /\ nextToEmit' = nextToEmit + 1
       /\ emitters' = IF resumed THEN emitters ELSE emitters + 1
       /\ nextToStart' = nextToStart
       /\ inFlight' = inF
       /\ pending' = pend
       /\ usedConfig' = usedConfig
  ELSE /\ sink' = sink
       /\ nextToEmit' = nextToEmit
       /\ emitters' = IF resumed THEN emitters - 1 ELSE emitters
       /\ launchNext(inF, pend, Len(jobs))

\* The completion wait without its test of nextToEmit.
AllEmittedIdleOnly(nte, tot, inF) == inF = 0

\* The completion wait: `nextToEmit >= total && inFlight === 0`.
AllEmitted(nte, tot, inF) == nte >= tot /\ inF = 0

(***************************************************************************)
(* The availability monitor, as far as the request handlers use it         *)
(* (server.js 341-380).                                                    *)
(***************************************************************************)
\* String.prototype.toLowerCase on the host names of the model.
ToLowerCase(str) == IF str = "LocalHost" THEN "localhost" ELSE str

\* isLocalHost that takes every host for local.
isLocalHostAny(host) == TRUE

isLocalHost(host) == ToLowerCase(host.s) \in {"127.0.0.1", "localhost"}

\* shouldStart that does not look at its inputs.
shouldStartAlways(maybeStart) == TRUE

\* shouldStart of ensureOllamaRunning.
shouldStart(maybeStart) == maybeStart \/ CONFIG.OLLAMA_AUTOSTART.b

\* A rejection written into the stream as a line.
RejectAsLine(code) ==
  /\ status' = code
  /\ phase' = "done"
  /\ sink' = Append(sink, [error |-> "rejected"])
  /\ UNCHANGED <<jobs, results, nextToStart, nextToEmit, inFlight, pending, emitters,
                 ended, usedConfig, outcome, faulted>>

\* res.status(400) / res.status(503): the handler returns.
Reject(code) ==
  /\ status' = code
  /\ phase' = "done"
  /\ UNCHANGED <<jobs, results, nextToStart, nextToEmit, inFlight, pending, emitters,
                 sink, ended, usedConfig, outcome, faulted>>

\* The handler once the host is reachable: stream headers, the per-request
\* state, launchNext() and the first run of check().  (translate-stream gets
\* here with total > 0 only, so its chunk list is not empty.)
BeginStream ==
  LET js == IF mode = "fix" THEN FixJobs(paragraphs)
            ELSE chunkTranslationItems(Items(paragraphs),
                                       normalizeChunkOptions(body.chunking))
  IN  /\ status' = 200
      /\ jobs' = js
      /\ launchNext(0, {}, Len(js))
      /\ IF AllEmitted(0, total, inFlight')
         THEN phase' = "done" /\ ended' = TRUE
         ELSE phase' = "streaming" /\ ended' = FALSE
      /\ UNCHANGED <<results, nextToEmit, emitters, sink, outcome, faulted>>

(***************************************************************************)
(* Actions.                                                                *)
(***************************************************************************)
\* POST /api/fix-stream or /api/translate-stream arrives: the handler runs to
\* its first await, the reachability probe of ensureOllamaRunning(true).
Request(m, b) ==
  /\ phase = "idle"
  /\ mode' = m
  /\ body' = b
  /\ UNCHANGED <<CONFIG, configPosts, ollamaProc, jobs, results, nextToStart, nextToEmit,
                 inFlight, pending, emitters, sink, usedConfig, outcome, faulted>>
  /\ IF m = "fix"
     THEN IF ~b.hasText \/ b.text = <<>>
          THEN status' = 400 /\ phase' = "done" /\ UNCHANGED <<paragraphs, ended>>
          ELSE /\ paragraphs' = Segment(b.text)
               /\ phase' = "probe"
               /\ UNCHANGED <<status, ended>>
     ELSE LET text == IF b.hasText THEN b.text ELSE <<>>
          IN  IF Trim(text) = <<>>
              THEN status' = 400 /\ phase' = "done" /\ UNCHANGED <<paragraphs, ended>>
              ELSE /\ paragraphs' = Segment(text)
                   /\ IF Len(paragraphs') = 0
                      THEN status' = 200 /\ ended' = TRUE /\ phase' = "done"
                      ELSE phase' = "probe" /\ UNCHANGED <<status, ended>>
  /\ UNCHANGED <<benchVars, runVars, monitorVars, pairVars>>

\* ensureOllamaRunning: the first probe answers.  Reachable: the handler goes
\* on.  Not reachable: maybeStart is true, so startOllamaServe() runs.
ProbeReachable ==
  /\ phase = "probe"
  /\ BeginStream
  /\ UNCHANGED <<CONFIG, configPosts, ollamaProc, mode, body, paragraphs>>
  /\ UNCHANGED <<benchVars, runVars, monitorVars, pairVars>>

ProbeUnreachable ==
  /\ phase = "probe"
  /\ UNCHANGED <<CONFIG, configPosts, mode, body, paragraphs>>
  /\ IF ollamaProc = "child"
     THEN \* already started by us: wait for it
          /\ phase' = "wait"
          /\ UNCHANGED <<ollamaProc, status, jobs, results, nextToStart, nextToEmit,
                         inFlight, pending, emitters, sink, ended, usedConfig, outcome,
                         faulted>>
     ELSE IF ~isLocalHost(CONFIG.OLLAMA_HOST)
     THEN Reject(503) /\ UNCHANGED ollamaProc
     ELSE \/ \* spawn("ollama", ["serve"]) returns the child
             /\ ollamaProc' = "child"
             /\ phase' = "wait"
             /\ UNCHANGED <<status, jobs, results, nextToStart, nextToEmit, inFlight,
                            pending, emitters, sink, ended, usedConfig, outcome, faulted>>
          \/ \* spawn throws: startOllamaServe returns null
             Reject(503) /\ UNCHANGED ollamaProc
          \/ \* spawn returns a child whose launch fails (no such executable):
             \* its 'error' event is still to come
             /\ ollamaProc' = "child"
             /\ phase' = "failing"
             /\ UNCHANGED <<status, jobs, results, nextToStart, nextToEmit, inFlight,
                            pending, emitters, sink, ended, usedConfig, outcome, faulted>>
  /\ UNCHANGED <<benchVars, runVars, monitorVars, pairVars>>

\* The 'error' event of the `ollama serve` child that failed to launch:
\* nothing listens for it, so it is thrown as an uncaught exception and Node
\* exits with the request unanswered.
ServeSpawnError ==
  /\ phase = "failing"
  /\ phase' = "crashed"
  /\ UNCHANGED <<CONFIG, configPosts, ollamaProc, mode, body, paragraphs, jobs, results,
                 nextToStart, nextToEmit, inFlight, pending, emitters, status, sink, ended,
                 usedConfig, outcome, faulted>>
  /\ UNCHANGED <<benchVars, runVars, monitorVars, pairVars>>

\* waitForReachable() returns: a probe succeeded, or the start timeout passed.
WaitReachable ==
  /\ phase = "wait"
  /\ BeginStream
  /\ UNCHANGED <<CONFIG, configPosts, ollamaProc, mode, body, paragraphs>>
  /\ UNCHANGED <<benchVars, runVars, monitorVars, pairVars>>

WaitTimeout ==
  /\ phase = "wait"
  /\ Reject(503)
  /\ UNCHANGED <<CONFIG, configPosts, ollamaProc, mode, body, paragraphs>>
  /\ UNCHANGED <<benchVars, runVars, monitorVars, pairVars>>

\* The runOllama promise of job k settles: its .then or .catch handler fills
\* the slots, then the .finally callback runs.
Settle(k) ==
  /\ k \in pending
  /\ \E st \in Settlements(results, jobs[k + 1]) :
       /\ results' = st.results
       /\ outcome' = [j \in DOMAIN outcome \cup {k} |->
                        IF j = k THEN st.kind ELSE outcome[j]]
       /\ emitReady(st.results, inFlight - 1, pending \ {k}, FALSE)
  /\ UNCHANGED <<CONFIG, configPosts, ollamaProc, phase, mode, body, paragraphs, jobs,
                 status, ended, faulted>>
  /\ UNCHANGED <<benchVars, runVars, monitorVars, pairVars>>

\* The pacing delay of a suspended emitReady run ends.
EmitWake ==
  /\ emitters > 0
  /\ emitReady(results, inFlight, pending, TRUE)
  /\ UNCHANGED <<CONFIG, configPosts, ollamaProc, phase, mode, body, paragraphs, jobs,
                 results, status, ended, outcome, faulted>>
  /\ UNCHANGED <<benchVars, runVars, monitorVars, pairVars>>

\* check() of the completion wait finds everything emitted: the promise
\* resolves and the finally block ends the response.  (Otherwise check only
\* re-arms its 50 ms timer.)
PollCheck ==
  /\ phase = "streaming"
  /\ AllEmitted(nextToEmit, total, inFlight)
  /\ phase' = "done"
  /\ ended' = TRUE
  /\ UNCHANGED <<CONFIG, configPosts, ollamaProc, mode, body, paragraphs, jobs, results,
                 nextToStart, nextToEmit, inFlight, pending, emitters, status, sink,
                 usedConfig, outcome, faulted>>
  /\ UNCHANGED <<benchVars, runVars, monitorVars, pairVars>>

\* The bodies POST /api/config is called with.
ConfigBodies ==
  {[OLLAMA_CONCURRENCY |-> Whole(1)],
   [OLLAMA_CONCURRENCY |-> Str("1.5")],
   [OLLAMA_CONCURRENCY |-> Str("abc")],
   [OLLAMA_HOST |-> Str("10.0.0.5"), OLLAMA_RUN_TIMEOUT_MS |-> Whole(60000)]}

\* POST /api/config: CONFIG = normalizeConfig({ ...CONFIG, ...body }).
PostConfig(b) ==
  /\ configPosts < MaxConfigPosts
  /\ phase # "crashed"
  /\ configPosts' = configPosts + 1
  /\ CONFIG' = normalizeConfig(Spread(CONFIG, b))
  /\ UNCHANGED <<ollamaProc, phase, mode, body, paragraphs, jobs, results, nextToStart,
                 nextToEmit, inFlight, pending, emitters, status, sink, ended, usedConfig, outcome, faulted>>
  /\ UNCHANGED <<benchVars, runVars, monitorVars, pairVars>>

Next ==
  \/ \E m \in Modes, b \in Bodies : Request(m, b)
  \/ ProbeReachable
  \/ ProbeUnreachable
  \/ WaitReachable
  \/ WaitTimeout
  \/ ServeSpawnError
  \/ \E k \in pending : Settle(k)
  \/ EmitWake
  \/ PollCheck
  \/ \E b \in ConfigBodies : PostConfig(b)

Spec == Init /\ [][Next]_vars

(***************************************************************************)
(* The same program when a statement of the handler throws.                *)
(***************************************************************************)
\* The NDJSON line of the catch block.
StreamError == [error |-> "stream_error"]

\* fix-stream: a statement inside the try block throws before launchNext()
\* (String(opts.tone) on an option that cannot be converted): the catch block
\* writes the stream_error line and the finally block ends the response.
StartThrow ==
  /\ phase \in {"probe", "wait"}
  /\ mode = "fix"
  /\ status' = 200
  /\ sink' = Append(sink, StreamError)
  /\ ended' = TRUE
  /\ phase' = "done"
  /\ faulted' = TRUE
  /\ UNCHANGED <<CONFIG, configPosts, ollamaProc, mode, body, paragraphs, jobs, results,
                 nextToStart, nextToEmit, inFlight, pending, emitters, usedConfig, outcome>>
  /\ UNCHANGED <<benchVars, runVars, monitorVars, pairVars>>

\* Job k settles and res.write throws in the emitReady run of its .finally
\* callback: the callback's promise rejects, nothing is written and
\* launchNext() is not reached.
SettleThrow(k) ==
  /\ k \in pending
  /\ \E st \in Settlements(results, jobs[k + 1]) :
       /\ ReadyToEmit(st.results)
       /\ results' = st.results
       /\ outcome' = [j \in DOMAIN outcome \cup {k} |->
                        IF j = k THEN st.kind ELSE outcome[j]]
  /\ inFlight' = inFlight - 1
  /\ pending' = pending \ {k}
  /\ faulted' = TRUE
  /\ UNCHANGED <<CONFIG, configPosts, ollamaProc, phase, mode, body, paragraphs, jobs,
                 nextToStart, nextToEmit, emitters, status, sink, ended, usedConfig>>
  /\ UNCHANGED <<benchVars, runVars, monitorVars, pairVars>>

\* res.write throws in an emitReady run resumed by its timer.
EmitWakeThrow ==
  /\ emitters > 0
  /\ ReadyToEmit(results)
  /\ emitters' = emitters - 1
  /\ faulted' = TRUE
  /\ UNCHANGED <<CONFIG, configPosts, ollamaProc, phase, mode, body, paragraphs, jobs,
                 results, nextToStart, nextToEmit, inFlight, pending, status, sink, ended,
                 usedConfig, outcome>>
  /\ UNCHANGED <<benchVars, runVars, monitorVars, pairVars>>

NextFault ==
  \/ Next
  \/ StartThrow
  \/ \E k \in pending : SettleThrow(k)
  \/ EmitWakeThrow

SpecFault == Init /\ [][NextFault]_vars

(***************************************************************************)
(* Fairness: timers fire, and every invocation settles (runOllama ends     *)
(* with the process or with its timeout).                                  *)
(***************************************************************************)
JobIds == 0..(MaxParas - 1)

LiveSpec ==
  /\ Init
  /\ [][Next]_vars
  /\ WF_vars(EmitWake)
  /\ WF_vars(PollCheck)
  /\ \A k \in JobIds : WF_vars(Settle(k))

\* Only the timers are fair: no invocation has to settle.
PaceSpec ==
  /\ Init
  /\ [][Next]_vars
  /\ WF_vars(EmitWake)

(***************************************************************************)
(* The pure functions of the server applied on their own: one call per     *)
(* behaviour, its arguments drawn at the start.                            *)
(***************************************************************************)
\* The server with its default configuration and no request.
ServerQuiet == CONFIG = StartConfig(EmptyObject) /\ ServerIdle

\* The arguments of chunkTranslationItems: unit lists as translate-stream
\* builds them (server.js 674-677) from trimmed texts of one and of three
\* characters, and options.chunking as callers send it, normalized.
ChunkArgs ==
  LET UnitTexts == {<<"a">>, <<"a", "a", "a">>}
      ItemLists ==
        {[i \in 1..Len(ts) |-> [index |-> i - 1, text |-> ts[i]]] :
           ts \in UNION {[1..n -> UnitTexts] : n \in 0..MaxItems}}
      BenchChunkings ==
        [maxParagraphs : {Undef, Whole(2), Num(5), Whole(25)},
         maxChars : {Undef, Whole(2), Whole(4)}]
  IN  {[items |-> items, opts |-> normalizeChunkOptions(c)] :
         items \in ItemLists, c \in BenchChunkings}

\* chunkTranslationItems(items, opts) returns.
CallChunk ==
  /\ fn = "chunk"
  /\ ~ret.done
  /\ ret' = [done |-> TRUE, value |-> chunkTranslationItems(args.items, args.opts)]
  /\ UNCHANGED <<fn, args, serverVars, pairVars, runVars, monitorVars>>

\* The parts of model outputs without JSON, and what separates them.
Words == {<<"b">>, <<"b", "\n", "b">>}
Separators == {<<"\n", "\n">>, <<"\n", "\n", "\n">>}
RECURSIVE JoinWith(_, _)
JoinWith(ps, sep) ==
  IF Len(ps) = 0 THEN <<>>
  ELSE IF Len(ps) = 1 THEN ps[1]
  ELSE ps[1] \o sep \o JoinWith(Tail(ps), sep)
WordLists == UNION {[1..n -> Words] : n \in 0..MaxParts}

\* What the .then handler of translate-stream is applied to.  The chunks:
\* runs of consecutive units of a request.  The model outputs: every short
\* text over the characters and JSON objects, texts without JSON made of
\* parts separated by blank lines, and fenced text.
ThenArgs ==
  LET BenchJobs ==
        {[j \in 1..n |-> [index |-> first + j - 1, text |-> <<"a">>]] :
           first \in 0..1, n \in 1..(MaxParas - 1)}
      OutputChars == {"b", " ", "\n"} \cup JsonTokens
      ShortOutputs == UNION {[1..n -> OutputChars] : n \in 0..MaxOutLen}
      PlainOutputs == {JoinWith(ps, sep) : ps \in WordLists, sep \in Separators}
      FencedOutputs ==
        {<<Fence, "\n">> \o inner \o <<"\n", Fence>> : inner \in {<<"{0:c}">>, <<"b">>}}
  IN  [job : BenchJobs, output : ShortOutputs \cup PlainOutputs \cup FencedOutputs]

\* The .then handler of translate-stream runs on an empty slot array; its
\* local `parsed` is kept beside the slots it leaves.
CallThen ==
  /\ fn = "then"
  /\ ~ret.done
  /\ ret' = [done |-> TRUE,
             parsed |-> parseTranslationPayload(args.output, IndicesOf(args.job)),
             value |-> TranslateThen(EmptyObject, args.job, args.output)]
  /\ UNCHANGED <<fn, args, serverVars, pairVars, runVars, monitorVars>>

\* outputParas.join("\n\n") of the client, on the units' texts.
JoinUnits(units) == JoinWith([i \in 1..Len(units) |-> units[i].text], BlankLine)

\* A text goes through the server and comes back: it is segmented, every
\* unit is trimmed and processed (here: left as it is), the results are
\* joined by blank lines and the joined text is segmented again.
CallSegment ==
  /\ fn = "segment"
  /\ ~ret.done
  /\ LET units == Items(Segment(args.text))
         joined == JoinUnits(units)
     IN  ret' = [done |-> TRUE, value |-> units, joined |-> joined,
                 again |-> Segment(joined)]
  /\ UNCHANGED <<fn, args, serverVars, pairVars, runVars, monitorVars>>

\* The ids of PROJECT_CONFIG.models when project.config.json lists nothing.
MODEL_OPTIONS ==
  <<"gemma3", "deepseek-v3.1:671b-cloud", "gpt-oss:120b-cloud", "llama3.2",
    "llama2-uncensored", "deepseek-llm", "mistral", "thinkverse/towerinstruct:latest">>
DEFAULT_MODEL == IF Len(MODEL_OPTIONS) > 0 THEN MODEL_OPTIONS[1] ELSE "gemma3"

\* const usedModel = model || DEFAULT_MODEL;
usedModel(model) == OrElse(model, Str(DEFAULT_MODEL))

\* A streaming handler computes usedModel; runOllama(usedModel, prompt) gets it.
CallModel ==
  /\ fn = "model"
  /\ ~ret.done
  /\ ret' = [done |-> TRUE, value |-> usedModel(args.model)]
  /\ UNCHANGED <<fn, args, serverVars, pairVars, runVars, monitorVars>>

\* Every object that has some of the keys of `settings`, each with one of the
\* values listed for it.
Objects(settings) ==
  UNION {{f \in [K -> UNION {settings[k] : k \in K}] : \A k \in K : f[k] \in settings[k]} :
           K \in SUBSET DOMAIN settings}

\* What the server is started with.  process.env: the variables that are
\* set are strings.  server/config.json: absent, or a JSON object with some
\* of the keys.
LoadArgs ==
  LET EnvSettings ==
        [OLLAMA_HOST |-> {Str("10.0.0.5")},
         OLLAMA_AUTOSTART |-> {Str("true")},
         OLLAMA_CONCURRENCY |-> {Str("1")}]
      FileSettings ==
        [OLLAMA_HOST |-> {Str("localhost")},
         OLLAMA_PORT |-> {Whole(8080)},
         OLLAMA_CONCURRENCY |-> {Whole(3), Whole(0)}]
      ConfigFiles ==
        {[exists |-> FALSE, json |-> EmptyObject]}
          \cup {[exists |-> TRUE, json |-> o] : o \in Objects(FileSettings)}
  IN  [env : Objects(EnvSettings), file : ConfigFiles]

\* FILE_DEFAULTS: {} unless config.json exists, then normalizeConfig of it.
FILE_DEFAULTS(file) == IF file.exists THEN normalizeConfig(file.json) ELSE EmptyObject

\* let CONFIG = normalizeConfig({ ...ENV_DEFAULTS, ...FILE_DEFAULTS });
LoadConfig(env, file) == normalizeConfig(Spread(normalizeConfig(env), FILE_DEFAULTS(file)))

\* The module is loaded: CONFIG is computed from the environment and the file.
CallLoadConfig ==
  /\ fn = "load"
  /\ ~ret.done
  /\ ret' = [done |-> TRUE, value |-> LoadConfig(args.env, args.file)]
  /\ UNCHANGED <<fn, args, serverVars, pairVars, runVars, monitorVars>>

\* The values options.chunking arrives with: no object at all, or an object
\* with some of the two settings, each a number (whole or not, negative, in
\* range, at a cap or beyond it), a string, a boolean or NaN.
OptionsArgs ==
  LET settings ==
        [maxParagraphs |->
           {Undef, NaN, Whole(0), Num(1), Whole(2), Num(5), Whole(20), Whole(25), Num(-3),
            Str("2"), Str("abc"), Str(""), Bool(TRUE)},
         maxChars |->
           {Undef, NaN, Whole(0), Num(1), Whole(4), Whole(20000), Whole(20001), Whole(-1),
            Str("1.5"), Str("abc")}]
  IN  [raw : {Undef, Str("2"), Whole(5)} \cup Objects(settings)]

\* normalizeChunkOptions(rawOptions.chunking), one call.
CallOptions ==
  /\ fn = "options"
  /\ ~ret.done
  /\ ret' = [done |-> TRUE, value |-> normalizeChunkOptions(args.raw)]
  /\ UNCHANGED <<fn, args, serverVars, pairVars, runVars, monitorVars>>

\* POST /api/config (server.js 461-488) on the configuration config:
\* the CONFIG it leaves, whether config.json was written, and the response.
\* writeThrows: fs.writeFileSync throws when it is called.
postConfig(config, reqBody, writeThrows) ==
  LET persist == parseBool(OrElse(Get(reqBody, "persist"), Bool(FALSE)), FALSE).b
      next == normalizeConfig(Spread(config, reqBody))
  IN  IF persist /\ writeThrows
      THEN [CONFIG |-> next, written |-> FALSE, status |-> 500,
            error |-> "config_write_error", config |-> EmptyObject, persisted |-> FALSE]
      ELSE [CONFIG |-> next, written |-> persist, status |-> 200,
            error |-> "none", config |-> normalizeConfig(next), persisted |-> persist]

\* The calls of POST /api/config: the server holds the configuration it
\* started with, or the one an earlier call left, and the body names some of
\* the settings and may ask for persistence.
PostArgs ==
  LET earlier ==
        {EmptyObject,
         [OLLAMA_HOST |-> Str("10.0.0.5"), OLLAMA_PORT |-> Whole(8080)],
         [OLLAMA_CONCURRENCY |-> Str("abc")],
         [OLLAMA_RUN_TIMEOUT_MS |-> Str("0")]}
      settings ==
        [OLLAMA_HOST |-> {Str("localhost")},
         OLLAMA_AUTOSTART |-> {Bool(TRUE)},
         OLLAMA_CONCURRENCY |-> {Whole(3)},
         persist |-> {Bool(TRUE), Str("yes"), Str("no")}]
  IN  [config : {postConfig(StartConfig(EmptyObject), b, FALSE).CONFIG : b \in earlier},
       body : Objects(settings),
       writeThrows : BOOLEAN]

CallPostConfig ==
  /\ fn = "post"
  /\ ~ret.done
  /\ ret' = [done |-> TRUE, value |-> postConfig(args.config, args.body, args.writeThrows)]
  /\ UNCHANGED <<fn, args, serverVars, pairVars, runVars, monitorVars>>

FnInit ==
  /\ ServerQuiet
  /\ RunIdle
  /\ MonitorIdle
  /\ PairIdle
  /\ ret = [done |-> FALSE]
  /\ \/ fn = "chunk" /\ args \in ChunkArgs
     \/ fn = "then" /\ args \in ThenArgs
     \/ \* request texts taken character by character
        fn = "segment"
          /\ args \in [text : UNION {[1..n -> {"a", " ", "\n"}] : n \in 0..MaxTextLen}]
     \/ \* the model field of a request body: absent, empty, listed or not
        fn = "model"
          /\ args \in [model : {Undef, Str(""), Str("gemma3"), Str("mistral"),
                                 Str("my-own-model")}]
     \/ fn = "load" /\ args \in LoadArgs
     \/ fn = "post" /\ args \in PostArgs
     \/ fn = "options" /\ args \in OptionsArgs

FnNext ==
  \/ CallChunk
  \/ CallThen
  \/ CallSegment
  \/ CallModel
  \/ CallLoadConfig
  \/ CallPostConfig
  \/ CallOptions

FnSpec == FnInit /\ [][FnNext]_vars

(***************************************************************************)
(* One call of runOllama, step by step (server.js 382-430).                *)
(***************************************************************************)
\* resolve(value) / reject(error) on a promise: only the first call settles it.
Resolve(p, value) ==
  IF p.state = "pending" THEN [state |-> "resolved", value |-> value] ELSE p
RejectWith(p, error) ==
  IF p.state = "pending" THEN [state |-> "rejected", error |-> error] ELSE p

\* The errors runOllama rejects with.
TimeoutError == [message |-> "ollama_run_timeout"]
StderrError(text) == [message |-> "stderr", text |-> text]
ExitCodeError(code) == [message |-> "ollama exited with", code |-> code]
Thrown(what) == [message |-> "thrown", by |-> what]

\* The handlers without their clearTimeout(timer) call.
ClearTimeoutForgotten(t) == t

\* clearTimeout(timer)
ClearTimeout(t) == IF t = "armed" THEN "cleared" ELSE t

\* The exit codes of the 'close' event: 0, not 0, and null (ended by a signal).
ExitCodes == {"0", "1", "null"}

\* The 'close' handler that looks at the exit code before timedOut.
CloseOutcomeCodeFirst(p, code) ==
  IF code # "0"
  THEN RejectWith(p, IF errBuf # <<>> THEN StderrError(errBuf) ELSE ExitCodeError(code))
  ELSE IF timedOut THEN RejectWith(p, TimeoutError)
  ELSE Resolve(p, Trim(outBuf))

\* The 'close' handler that does not look at the exit code.
CloseOutcomeIgnoresCode(p, code) ==
  IF timedOut THEN RejectWith(p, TimeoutError) ELSE Resolve(p, Trim(outBuf))

\* The 'close' handler after clearTimeout: what it does to the promise.
CloseOutcome(p, code) ==
  IF timedOut THEN RejectWith(p, TimeoutError)
  ELSE IF code # "0"
  THEN RejectWith(p, IF errBuf # <<>> THEN StderrError(errBuf) ELSE ExitCodeError(code))
  ELSE Resolve(p, Trim(outBuf))

\* runOllama is called and spawn throws: the executor's throw rejects.
RunSpawnThrows ==
  /\ events = <<>>
  /\ promise' = RejectWith(promise, Thrown("spawn"))
  /\ events' = Append(events, [ev |-> "spawn_throw"])
  /\ UNCHANGED <<child, timer, timedOut, outBuf, errBuf, serverVars, pairVars, benchVars, monitorVars>>

\* runOllama is called: the child is spawned, the timer armed, the handlers
\* attached and the prompt written to stdin.
RunStart ==
  /\ events = <<>>
  /\ child' = [state |-> "running", signalled |-> FALSE]
  /\ timer' = "armed"
  /\ events' = Append(events, [ev |-> "spawn"])
  /\ UNCHANGED <<timedOut, outBuf, errBuf, promise, serverVars, pairVars, benchVars, monitorVars>>

\* The same, but child.stdin.write throws: the catch block clears the timer,
\* kills the child and rejects.
RunWriteThrows ==
  /\ events = <<>>
  /\ child' = [state |-> "running", signalled |-> TRUE]
  /\ timer' = "cleared"
  /\ promise' = RejectWith(promise, Thrown("write"))
  /\ events' = Append(events, [ev |-> "write_throw"])
  /\ UNCHANGED <<timedOut, outBuf, errBuf, serverVars, pairVars, benchVars, monitorVars>>

\* child.stdout.on("data") / child.stderr.on("data")
StdoutData(chunk) ==
  /\ child.state = "running"
  /\ Len(outBuf) < MaxChunks
  /\ outBuf' = outBuf \o chunk
  /\ UNCHANGED <<child, timer, timedOut, errBuf, promise, events, serverVars, pairVars, benchVars,
                 monitorVars>>

StderrData(chunk) ==
  /\ child.state = "running"
  /\ Len(errBuf) < MaxChunks
  /\ errBuf' = errBuf \o chunk
  /\ UNCHANGED <<child, timer, timedOut, outBuf, promise, events, serverVars, pairVars, benchVars,
                 monitorVars>>

\* child.on("error"): the process could not be spawned (the event comes on the
\* next tick, before any output and before the timer).
ChildError ==
  /\ child.state = "running"
  /\ events = <<[ev |-> "spawn"]>>
  /\ outBuf = <<>> /\ errBuf = <<>>
  /\ child' = [child EXCEPT !.state = "failed"]
  /\ timer' = ClearTimeout(timer)
  /\ promise' = RejectWith(promise, Thrown("error event"))
  /\ events' = Append(events, [ev |-> "error"])
  /\ UNCHANGED <<timedOut, outBuf, errBuf, serverVars, pairVars, benchVars, monitorVars>>

\* The timeout timer fires: timedOut = true; child.kill().
TimerFires ==
  /\ timer = "armed"
  /\ timer' = "fired"
  /\ timedOut' = TRUE
  /\ child' = [child EXCEPT !.signalled = TRUE]
  /\ events' = Append(events, [ev |-> "timeout"])
  /\ UNCHANGED <<outBuf, errBuf, promise, serverVars, pairVars, benchVars, monitorVars>>

\* child.on("close"): the process ended and its streams closed.  A process
\* that could not be spawned closes with an error code.
Close(code) ==
  /\ child.state \in {"running", "failed"}
  /\ child.state = "failed" => code = "1"
  /\ child' = [child EXCEPT !.state = "closed"]
  /\ timer' = ClearTimeout(timer)
  /\ promise' = CloseOutcome(promise, code)
  /\ events' = Append(events, [ev |-> "close", code |-> code])
  /\ UNCHANGED <<timedOut, outBuf, errBuf, serverVars, pairVars, benchVars, monitorVars>>

\* A child that was sent the signal ends.
CloseSignalled == child.signalled /\ \E code \in ExitCodes : Close(code)

RunInit == ServerQuiet /\ BenchIdle /\ MonitorIdle /\ PairIdle /\ RunIdle

RunNext ==
  \/ RunSpawnThrows
  \/ RunStart
  \/ RunWriteThrows
  \/ \E chunk \in {<<"b">>, <<" ">>} : StdoutData(chunk)
  \/ StderrData(<<"e">>)
  \/ ChildError
  \/ TimerFires
  \/ \E code \in ExitCodes : Close(code)

RunSpec == RunInit /\ [][RunNext]_vars

\* The timer fires when it is due, and a process that was sent the signal
\* ends.
LiveRunSpec ==
  /\ RunInit
  /\ [][RunNext]_vars
  /\ WF_vars(TimerFires)
  /\ WF_vars(CloseSignalled)

(***************************************************************************)
(* ensureOllamaRunning, step by step, with configuration updates in        *)
(* between (server.js 330-380).  The history fields of a call keep what    *)
(* the probe answered, CONFIG.OLLAMA_AUTOSTART when it was read, how the   *)
(* launch went, and the handle and the number of spawns when the call      *)
(* began.                                                                  *)
(***************************************************************************)
Returned(reachable, started) == [reachable |-> reachable, started |-> started]

\* Node exited on an uncaught exception: no callback runs any more.
Crashed == \E c \in Callers : ensure[c].pc = "crashed"

\* ensureOllamaRunning(maybeStart) is called by caller c (GET /api/health
\* passes the start parameter, the streaming handlers pass true): the probe
\* is sent.
EnsureCall(c, maybeStart) ==
  /\ ~Crashed
  /\ ensure[c].pc \in {"idle", "returned"}
  /\ ensure' = [ensure EXCEPT ![c] =
                  [IdleCall EXCEPT !.pc = "probe", !.maybeStart = maybeStart,
                                   !.procAtCall = ollamaProc,
                                   !.spawnsAtCall = Len(spawns)]]
  /\ UNCHANGED <<spawns, serveRunning, serverVars, pairVars, benchVars, runVars>>

\* The probe connects.
EnsureProbeOk(c) ==
  /\ ~Crashed
  /\ ensure[c].pc = "probe"
  /\ ensure' = [ensure EXCEPT ![c].pc = "returned", ![c].probe = "ok",
                              ![c].ret = Returned(TRUE, FALSE)]
  /\ UNCHANGED <<spawns, serveRunning, serverVars, pairVars, benchVars, runVars>>

\* `Date.now() - start < totalMs` when waitForReachable begins: false at once
\* if the timeout is not a positive number.
ClockAtStart ==
  IF LessThan(0, CONFIG.OLLAMA_START_TIMEOUT_MS) THEN "within" ELSE "elapsed"

\* The probe fails: shouldStart is computed and, if it holds,
\* startOllamaServe() runs, all in one callback; with a handle the call goes
\* on to waitForReachable().
EnsureProbeFail(c) ==
  /\ ~Crashed
  /\ ensure[c].pc = "probe"
  /\ LET seen == [ensure[c] EXCEPT !.probe = "failed",
                                   !.autostart = CONFIG.OLLAMA_AUTOSTART.b]
         giveUp == [seen EXCEPT !.pc = "returned", !.ret = Returned(FALSE, FALSE)]
         wait == [seen EXCEPT !.pc = "wait", !.clock = ClockAtStart]
     IN  IF ~shouldStart(ensure[c].maybeStart)
         THEN /\ ensure' = [ensure EXCEPT ![c] = giveUp]
              /\ UNCHANGED <<ollamaProc, spawns, serveRunning>>
         ELSE IF ollamaProc = "child"
         THEN \* already started by us and (never marked) killed: reuse it
              /\ ensure' = [ensure EXCEPT ![c] = wait]
              /\ UNCHANGED <<ollamaProc, spawns, serveRunning>>
         ELSE IF ~isLocalHost(CONFIG.OLLAMA_HOST)
         THEN /\ ensure' = [ensure EXCEPT ![c] = giveUp]
              /\ UNCHANGED <<ollamaProc, spawns, serveRunning>>
         ELSE \/ \* spawn starts the process
                 /\ ollamaProc' = "child"
                 /\ spawns' = Append(spawns, CONFIG.OLLAMA_HOST.s)
                 /\ serveRunning' = TRUE
                 /\ ensure' = [ensure EXCEPT ![c] = [wait EXCEPT !.launch = "ok"]]
              \/ \* spawn throws: the catch block returns null
                 /\ ensure' = [ensure EXCEPT ![c] = [giveUp EXCEPT !.launch = "threw"]]
                 /\ UNCHANGED <<ollamaProc, spawns, serveRunning>>
              \/ \* spawn returns a child whose launch fails (no such
                 \* executable): its 'error' event is still to come
                 /\ ollamaProc' = "child"
                 /\ ensure' = [ensure EXCEPT ![c] = [wait EXCEPT !.launch = "failing"]]
                 /\ UNCHANGED <<spawns, serveRunning>>
  /\ UNCHANGED <<CONFIG, configPosts, phase, mode, body, paragraphs, jobs, results,
                 nextToStart, nextToEmit, inFlight, pending, emitters, status, sink, ended,
                 usedConfig, outcome, faulted, benchVars, runVars, pairVars>>

\* The 'error' event of the child that failed to launch: nothing listens for
\* it, so the event is thrown as an uncaught exception and Node exits.
SpawnErrorEvent(c) ==
  /\ ~Crashed
  /\ ensure[c].pc = "wait"
  /\ ensure[c].launch = "failing"
  /\ ensure' = [ensure EXCEPT ![c].pc = "crashed", ![c].launch = "failed"]
  /\ UNCHANGED <<spawns, serveRunning, serverVars, pairVars, benchVars, runVars>>

\* waitForReachable(): the loop test holds and the probe connects.
EnsureWaitOk(c) ==
  /\ ~Crashed
  /\ ensure[c].pc = "wait"
  /\ ensure[c].launch # "failing"
  /\ ensure[c].clock = "within"
  /\ ensure' = [ensure EXCEPT ![c].pc = "returned", ![c].polled = "ok",
                              ![c].ret = Returned(TRUE, TRUE)]
  /\ UNCHANGED <<spawns, serveRunning, serverVars, pairVars, benchVars, runVars>>

\* waitForReachable(): the loop test holds, the probe fails and the interval
\* is slept; by then the timeout has passed or not.
EnsureWaitRetry(c) ==
  /\ ~Crashed
  /\ ensure[c].pc = "wait"
  /\ ensure[c].launch # "failing"
  /\ ensure[c].clock = "within"
  /\ \E clock \in {"within", "elapsed"} :
       ensure' = [ensure EXCEPT ![c].polled = "failed", ![c].clock = clock]
  /\ UNCHANGED <<spawns, serveRunning, serverVars, pairVars, benchVars, runVars>>

\* waitForReachable(): the loop test fails, false is returned.
EnsureWaitTimeout(c) ==
  /\ ~Crashed
  /\ ensure[c].pc = "wait"
  /\ ensure[c].launch # "failing"
  /\ ensure[c].clock = "elapsed"
  /\ ensure' = [ensure EXCEPT ![c].pc = "returned", ![c].ret = Returned(FALSE, TRUE)]
  /\ UNCHANGED <<spawns, serveRunning, serverVars, pairVars, benchVars, runVars>>

\* The `ollama serve` process the server spawned exits (it crashed, or the
\* user stopped it).  Nothing in the server listens for that.
ServeExits ==
  /\ ~Crashed
  /\ serveRunning
  /\ serveRunning' = FALSE
  /\ UNCHANGED <<ensure, spawns, serverVars, pairVars, benchVars, runVars>>

\* The server starts with a configuration that matters to the monitor.
EnsureInit ==
  /\ CONFIG \in {StartConfig(raw) :
                   raw \in {EmptyObject, [OLLAMA_HOST |-> Str("10.0.0.5")],
                            [OLLAMA_AUTOSTART |-> Str("true")]}}
  /\ ServerIdle
  /\ BenchIdle
  /\ RunIdle
  /\ MonitorIdle
  /\ PairIdle

\* What the callers in `callers` and the rest of the world do.
MonitorNext(callers) ==
  \/ \E c \in callers, maybeStart \in BOOLEAN : EnsureCall(c, maybeStart)
  \/ \E c \in callers : EnsureProbeOk(c)
  \/ \E c \in callers : EnsureProbeFail(c)
  \/ \E c \in callers : SpawnErrorEvent(c)
  \/ \E c \in callers : EnsureWaitOk(c)
  \/ \E c \in callers : EnsureWaitRetry(c)
  \/ \E c \in callers : EnsureWaitTimeout(c)
  \/ ServeExits
  \/ \E b \in {[OLLAMA_HOST |-> Str("10.0.0.5")], [OLLAMA_HOST |-> Str("LocalHost")],
               [OLLAMA_AUTOSTART |-> Bool(TRUE)], [OLLAMA_AUTOSTART |-> Bool(FALSE)]} :
       ~Crashed /\ PostConfig(b)

\* One caller, one call after the other.
EnsureNext == MonitorNext({"health"})

EnsureSpec == EnsureInit /\ [][EnsureNext]_vars

\* Calls of different requests, going on at the same time.
RaceNext == MonitorNext(Callers)

RaceSpec == EnsureInit /\ [][RaceNext]_vars

(***************************************************************************)
(* Two streaming requests handled at the same time, the host reachable.    *)
(* Each call of a handler declares total, nextToStart (nextChunk),         *)
(* nextToEmit, inFlight and results in its own body (server.js 512-516,    *)
(* 680-683); its promises, timers and response are its own as well.        *)
(***************************************************************************)
\* The variables of the dispatcher declared at module level: one instance
\* for every request.
ScopeModule(r) == "A"

\* Where the variables of the dispatcher of request r live: in the call of
\* the handler.
Scope(r) == r

DispatcherOf(r) == dispatch[Scope(r)]

\* launchNext() of request q on the dispatcher variables d.
launchNextIn(q, d) ==
  LET m == LaunchCount(d.inFlight, d.nextToStart, Len(q.jobs), CONFIG.OLLAMA_CONCURRENCY)
      started == d.nextToStart..(d.nextToStart + m - 1)
  IN  [q |-> [q EXCEPT !.pending = @ \cup started],
       d |-> [d EXCEPT !.nextToStart = @ + m, !.inFlight = @ + m]]

\* `await emitReady(); launchNext();` of request q on the dispatcher
\* variables d, up to the next pacing delay.
emitReadyIn(q, d, resumed) ==
  IF d.nextToEmit < Len(q.paragraphs) /\ d.nextToEmit \in DOMAIN d.results
  THEN [q |-> [q EXCEPT !.sink = Append(@, d.results[d.nextToEmit]),
                        !.emitters = IF resumed THEN @ ELSE @ + 1],
        d |-> [d EXCEPT !.nextToEmit = @ + 1]]
  ELSE launchNextIn([q EXCEPT !.emitters = IF resumed THEN @ - 1 ELSE @], d)

\* The handler of request r gets past its awaits: the per-request state is
\* declared and launchNext() runs.
PairBegin(r) ==
  /\ ~reqs[r].begun
  /\ LET after == launchNextIn([reqs[r] EXCEPT !.begun = TRUE], NewDispatcher)
     IN  /\ reqs' = [reqs EXCEPT ![r] = after.q]
         /\ dispatch' = [dispatch EXCEPT ![Scope(r)] = after.d]
  /\ actor' = r
  /\ UNCHANGED <<serverVars, benchVars, runVars, monitorVars>>

\* The invocation of job k of request r settles.
PairSettle(r, k) ==
  /\ k \in reqs[r].pending
  /\ \E st \in SettlementsOf(reqs[r].mode, DispatcherOf(r).results, reqs[r].jobs[k + 1]) :
       LET after == emitReadyIn([reqs[r] EXCEPT !.pending = @ \ {k}],
                                [DispatcherOf(r) EXCEPT !.results = st.results,
                                                        !.inFlight = @ - 1],
                                FALSE)
       IN  /\ reqs' = [reqs EXCEPT ![r] = after.q]
           /\ dispatch' = [dispatch EXCEPT ![Scope(r)] = after.d]
  /\ actor' = r
  /\ UNCHANGED <<serverVars, benchVars, runVars, monitorVars>>

\* The pacing delay of a suspended emitReady run of request r ends.
PairWake(r) ==
  /\ reqs[r].emitters > 0
  /\ LET after == emitReadyIn(reqs[r], DispatcherOf(r), TRUE)
     IN  /\ reqs' = [reqs EXCEPT ![r] = after.q]
         /\ dispatch' = [dispatch EXCEPT ![Scope(r)] = after.d]
  /\ actor' = r
  /\ UNCHANGED <<serverVars, benchVars, runVars, monitorVars>>

\* check() of request r finds everything emitted: the response is ended.
PairCheck(r) ==
  /\ reqs[r].begun
  /\ ~reqs[r].ended
  /\ AllEmitted(DispatcherOf(r).nextToEmit, Len(reqs[r].paragraphs), DispatcherOf(r).inFlight)
  /\ reqs' = [reqs EXCEPT ![r].ended = TRUE]
  /\ actor' = r
  /\ UNCHANGED <<dispatch, serverVars, benchVars, runVars, monitorVars>>

\* The character the paragraphs of a request are made of.
UnitChar(r) == IF r = "A" THEN "a" ELSE "c"

\* Request r as its handler sees it, for a text of n paragraphs.
NewRequest(r, m, n) ==
  LET paras == Segment(JoinWith([i \in 1..n |-> <<UnitChar(r)>>], BlankLine))
  IN  [IdleRequest EXCEPT
         !.mode = m,
         !.paragraphs = paras,
         !.jobs = IF m = "fix" THEN FixJobs(paras)
                  ELSE chunkTranslationItems(
                         Items(paras), normalizeChunkOptions([maxParagraphs |-> Whole(2)]))]

PairInit ==
  /\ CONFIG \in {StartConfig(raw) : raw \in StartupRaws}
  /\ ServerIdle
  /\ BenchIdle
  /\ RunIdle
  /\ MonitorIdle
  /\ \E m \in [Requests -> Modes], n \in [Requests -> 1..PairParas] :
       reqs = [r \in Requests |-> NewRequest(r, m[r], n[r])]
  /\ dispatch = [r \in Requests |-> NewDispatcher]
  /\ actor = "none"

PairNext ==
  \/ \E r \in Requests : PairBegin(r)
  \/ \E r \in Requests : \E k \in reqs[r].pending : PairSettle(r, k)
  \/ \E r \in Requests : PairWake(r)
  \/ \E r \in Requests : PairCheck(r)

PairSpec == PairInit /\ [][PairNext]_vars

(***************************************************************************)
(* Properties.                                                             *)
(***************************************************************************)
\* The result lines of the sink (every line but a stream_error line).
IsResultLine(line) == "index" \in DOMAIN line

\* The response was ended as a stream: not a 400 or 503 rejection.
StreamClosed == ended /\ status = 200

\* C1: on both streaming endpoints the index values written to the response
\* are 0, 1, 2, ... in this order at every moment (no gap, no duplicate, no
\* reordering), whatever the order in which the invocations settle, and when
\* the stream is closed all of 0..N-1 have been written.
C1_OrderInvariant ==
  /\ \A i \in 1..Len(sink) : IsResultLine(sink[i]) /\ sink[i].index = i - 1
  /\ StreamClosed => Len(sink) = total

\* C1 witness: unit 2 settled before unit 1 and is held back after line 0 was
\* written.
C1_Witness ==
  /\ total = 3
  /\ Len(sink) = 1
  /\ 2 \in DOMAIN results
  /\ 1 \notin DOMAIN results

\* The count exceeds the limit (false of NaN, as every comparison with it).
Exceeds(count, limit) == limit.t = "num" /\ 2 * count > limit.n

\* C2: the number of invocations started and not yet settled never exceeds
\* the configured concurrency limit.
C2_BoundedConcurrency == ~Exceeds(inFlight, CONFIG.OLLAMA_CONCURRENCY)

\* Job k was launched and every index it covers has a result.
Filled(k) == k < Len(jobs) /\ IndexSet(jobs[k + 1]) \subseteq DOMAIN results

\* C3: every launched unit or chunk eventually has a result in the slot of
\* each index it covers, however its invocation settles, and a slot that
\* holds a result keeps that one result.
C3_Completeness ==
  /\ \A k \in JobIds : (k \in pending) ~> Filled(k)
  /\ [][\A i \in DOMAIN results : i \in DOMAIN results' /\ results'[i] = results[i]]_vars

\* C3 witness: a chunk of two units was rejected and both its slots hold a
\* result.
C3_Witness ==
  /\ mode = "translate"
  /\ \E k \in DOMAIN outcome :
       /\ outcome[k] = "rejected"
       /\ Len(jobs[k + 1]) = 2
       /\ Filled(k)

\* C4: when the response stream is ended, all N result lines have been
\* written and no invocation of the request is running; nothing is written
\* after the stream is closed.
C4_NoEarlyClose ==
  /\ [](StreamClosed => nextToEmit = total /\ inFlight = 0 /\ Len(sink) = total)
  /\ [][ended => sink' = sink]_vars

\* C4 witness: the stream of a three-unit request is closed.
C4_Witness == StreamClosed /\ total = 3 /\ phase = "done"

\* The concurrency limit is a number (at least 1 by normalizeConfig).
ValidConcurrency == CONFIG.OLLAMA_CONCURRENCY.t = "num"

\* C5: while the concurrency limit stays a valid number, a request that
\* passed the input and reachability checks (its stream headers are sent)
\* eventually closes its response stream.
C5_Termination == ([]ValidConcurrency) => ((status = 200) ~> (phase = "done" /\ ended))

\* C5 witness: a three-unit request run with a fractional limit is done.
C5_Witness ==
  /\ phase = "done"
  /\ StreamClosed
  /\ total = 3
  /\ CONFIG.OLLAMA_CONCURRENCY = Num(3)

\* C6: a rejected invocation leaves the error marker in exactly the slots of
\* its own unit or chunk, no resolved invocation's slot carries it, and the
\* run goes on: the closed stream holds the result of every index.
C6_FailurePerUnit ==
  /\ \A k \in DOMAIN outcome : \A idx \in IndexSet(jobs[k + 1]) :
       /\ idx \in DOMAIN results
       /\ (outcome[k] = "rejected") <=> (TextOf(results[idx]) = ErrorMarker)
  /\ StreamClosed =>
       /\ DOMAIN outcome = 0..(Len(jobs) - 1)
       /\ \A idx \in 0..(total - 1) : sink[idx + 1] = results[idx]

\* C6 witness: the stream is closed after the first of three units was
\* rejected and the others resolved.
C6_Witness ==
  /\ StreamClosed
  /\ Len(jobs) = 3
  /\ outcome[0] = "rejected"
  /\ outcome[1] = "ok"
  /\ outcome[2] = "ok"

\* Nothing of the stream runs: no pending invocation, no suspended emitReady.
Quiescent == pending = {} /\ emitters = 0

\* C7: after a throw inside the dispatcher, once nothing of the request is
\* running any more, the sink ends with the stream_error line and the stream
\* is closed.
C7_StreamFaultCloses ==
  (faulted /\ Quiescent) =>
    (ended /\ Len(sink) > 0 /\ sink[Len(sink)] = StreamError)

\* C8: a request answered 400 or 503 wrote no NDJSON line and started no
\* invocation, and a response that began streaming is never turned into a
\* 400 or 503.
C8_RejectBeforeOutput ==
  /\ [](status \in {400, 503} =>
          sink = <<>> /\ nextToStart = 0 /\ DOMAIN usedConfig = {} /\ ~ended)
  /\ [](sink # <<>> \/ nextToStart > 0 => status = 200)
  /\ [][status = 200 => status' = 200]_vars

\* C8 witness: a request with three units was answered 503.
C8_Witness == status = 503 /\ total = 3

\* The request text is not empty and segments to zero units.
ZeroUnits == body.hasText /\ body.text # <<>> /\ Len(Segment(body.text)) = 0

\* C9: a request whose text segments to zero units is answered with an empty
\* stream (no line, no error response), whether or not the host is reachable.
C9_ZeroInput ==
  (phase = "done" /\ ZeroUnits) => (status = 200 /\ ended /\ sink = <<>>)

\* C10: every launch of a request uses the same configuration (concurrency
\* limit, timeout, host), whatever POST /api/config does meanwhile.
C10_ConfigSnapshot ==
  \A j \in DOMAIN usedConfig : \A k \in DOMAIN usedConfig : usedConfig[j] = usedConfig[k]


\* The characters of a chunk: the sum of its units' text lengths.
RECURSIVE ChunkChars(_)
ChunkChars(chunk) ==
  IF chunk = <<>> THEN 0 ELSE TextLength(Head(chunk).text) + ChunkChars(Tail(chunk))

ChunkReturned == fn = "chunk" /\ ret.done

\* C11 as stated: for every normalized option pair, no chunk has more than
\* maxParagraphs units and no chunk's character count exceeds maxChars, except
\* a chunk of one (oversized) unit.
C11_ChunkLimitsAsStated ==
  ChunkReturned =>
    \A c \in 1..Len(ret.value) :
      /\ Len(ret.value[c]) <= args.opts.maxParagraphs
      /\ ChunkChars(ret.value[c]) <= args.opts.maxChars \/ Len(ret.value[c]) = 1

\* C11 amended: no chunk has more than maxParagraphs units, and when maxChars
\* is positive (0 switches the character limit off) no chunk's character count
\* exceeds maxChars, except a chunk of one oversized unit.
C11_ChunkLimits ==
  ChunkReturned =>
    \A c \in 1..Len(ret.value) :
      /\ Len(ret.value[c]) <= args.opts.maxParagraphs
      /\ args.opts.maxChars > 0 =>
            ChunkChars(ret.value[c]) <= args.opts.maxChars \/ Len(ret.value[c]) = 1

\* A call where both limits close chunks and one unit alone is oversized.
C11_Witness ==
  /\ ChunkReturned
  /\ args.opts = [maxParagraphs |-> 2, maxChars |-> 2]
  /\ Len(args.items) = 5
  /\ \E c \in 1..Len(ret.value) : ChunkChars(ret.value[c]) > 2
  /\ \E c \in 1..Len(ret.value) : Len(ret.value[c]) = 2

\* The concatenation of a list of chunks.
RECURSIVE Flatten(_)
Flatten(chunks) == IF chunks = <<>> THEN <<>> ELSE Head(chunks) \o Flatten(Tail(chunks))

\* C12: chunkTranslationItems partitions the unit list: no chunk is empty and
\* the chunks in order concatenate to the original list (so every unit is in
\* exactly one chunk and indices ascend); five units with maxParagraphs = 2
\* and no character limit give chunks of sizes 2, 2, 1.
C12_ChunkPartition ==
  ChunkReturned =>
    /\ \A c \in 1..Len(ret.value) : Len(ret.value[c]) > 0
    /\ Flatten(ret.value) = args.items
    /\ \A i \in 1..Len(args.items) :
         Cardinality({c \in 1..Len(ret.value) :
                        \E j \in 1..Len(ret.value[c]) : ret.value[c][j].index = i - 1}) = 1
    /\ (Len(args.items) = 5 /\ args.opts = [maxParagraphs |-> 2, maxChars |-> 0]) =>
         [c \in 1..Len(ret.value) |-> Len(ret.value[c])] = <<2, 2, 1>>

\* Five units chunked two by two.
C12_Witness ==
  /\ ChunkReturned
  /\ Len(args.items) = 5
  /\ args.opts = [maxParagraphs |-> 2, maxChars |-> 0]
  /\ Len(ret.value) = 3


ThenReturned == fn = "then" /\ ret.done

\* C13: when a chunk's invocation succeeds, every index of the chunk (and no
\* other) gets a result: the text the output gives for it when it gives one,
\* else the empty string; so for empty output, for JSON that omits indices
\* and for JSON that names an index outside the chunk.
C13_EveryIndexGetsResult ==
  ThenReturned =>
    /\ DOMAIN ret.value = IndexSet(args.job)
    /\ \A x \in IndexSet(args.job) : ret.value[x].index = x
    /\ Trim(args.output) = <<>> =>
         \A x \in IndexSet(args.job) : ret.value[x].translated = <<>>
    /\ args.output = <<"{0:c}">> =>
         \A x \in IndexSet(args.job) :
           ret.value[x].translated = IF x = 0 THEN <<"c">> ELSE <<>>
    /\ args.output = <<"{9:c}">> =>
         \A x \in IndexSet(args.job) : ret.value[x].translated = <<>>
    /\ args.output = <<"{*:b}">> =>
         \A x \in IndexSet(args.job) : ret.value[x].translated = <<"b">>

\* JSON that names index 0 only was handled for a chunk of two units.
C13_Witness ==
  /\ ThenReturned
  /\ args.output = <<"{0:c}">>
  /\ IndexSet(args.job) = {0, 1}
  /\ ret.value[1].translated = <<>>

\* The expected outcome of the fallback for the parts ps on the indices order.
PaddedParts(ps, order) ==
  [i \in 1..Len(order) |->
     [index |-> order[i], text |-> IF i <= Len(ps) THEN ps[i] ELSE <<>>]]

\* C14 as stated: an output that is not parseable as the expected JSON, with
\* the parts ps between its blank lines, parses to the i-th part for the i-th
\* index of the chunk, the empty string beyond the number of parts, surplus
\* parts dropped.
C14_FallbackAsStated ==
  ThenReturned =>
    \A ps \in WordLists, sep \in Separators :
      args.output = JoinWith(ps, sep) =>
        ret.parsed = PaddedParts(ps, IndicesOf(args.job))

\* C14 amended: the same for an output that is not empty.
C14_Fallback ==
  ThenReturned =>
    \A ps \in WordLists, sep \in Separators :
      (args.output = JoinWith(ps, sep) /\ args.output # <<>>) =>
        ret.parsed = PaddedParts(ps, IndicesOf(args.job))

\* Padding and dropping both happened: one part for two indices, three parts
\* for one index.
C14_Witness ==
  /\ ThenReturned
  /\ \/ args.output = <<"b">> /\ Len(args.job) = 2 /\ Len(ret.parsed) = 2
     \/ /\ args.output = JoinWith(<<<<"b">>, <<"b">>, <<"b">>>>, <<"\n", "\n">>)
        /\ Len(args.job) = 1
        /\ Len(ret.parsed) = 1


\* C15: joining the trimmed units of a text with blank lines and segmenting
\* the result again yields as many units as segmenting the text.
C15_SegmentRoundTrip ==
  (fn = "segment" /\ ret.done) => Len(ret.again) = Len(ret.value)


Happened(ev) == \E i \in 1..Len(events) : events[i].ev = ev
RunSettled == promise.state # "pending"

\* C16: when the timeout elapses before the invocation completed, the process
\* is killed and the call rejects with ollama_run_timeout; once the timeout
\* has fired the call never resolves with output; and the call settles.
C16_TimeoutRejects ==
  /\ [](timedOut => child.signalled)
  /\ [](timedOut => promise.state # "resolved")
  /\ []((timedOut /\ RunSettled) => promise = [state |-> "rejected", error |-> TimeoutError])
  /\ (timedOut ~> RunSettled)
  /\ (Happened("spawn") ~> RunSettled)

\* The timeout fired on a process that had written output, and the call
\* rejected.
C16_Witness ==
  /\ timedOut
  /\ outBuf # <<>>
  /\ promise = [state |-> "rejected", error |-> TimeoutError]

\* The exit code of the 'close' event.
ClosedWith(code) ==
  child.state = "closed" /\ events[Len(events)] = [ev |-> "close", code |-> code]
NoThrow == ~Happened("spawn_throw") /\ ~Happened("write_throw") /\ ~Happened("error")

\* C17: runOllama settles once, and: exit with a status other than 0 before
\* the timeout rejects with the stderr text, or with the exit-code message when
\* stderr is empty; a clean exit with no timeout resolves with the trimmed
\* stdout; a spawn or process error rejects with that error.
C17_RunOutcome ==
  /\ [][RunSettled => promise' = promise]_vars
  /\ [](\A code \in ExitCodes \ {"0"} :
          (ClosedWith(code) /\ ~timedOut /\ NoThrow) =>
            promise = [state |-> "rejected",
                       error |-> IF errBuf # <<>> THEN StderrError(errBuf)
                                 ELSE ExitCodeError(code)])
  /\ []((ClosedWith("0") /\ ~timedOut /\ NoThrow) =>
          promise = [state |-> "resolved", value |-> Trim(outBuf)])
  /\ [](Happened("spawn_throw") => promise = [state |-> "rejected", error |-> Thrown("spawn")])
  /\ [](Happened("write_throw") => promise = [state |-> "rejected", error |-> Thrown("write")])
  /\ [](Happened("error") => promise = [state |-> "rejected", error |-> Thrown("error event")])

\* A failed process with stderr text, and an 'error' event followed by
\* 'close', were both handled.
C17_Witness ==
  \/ ClosedWith("1") /\ ~timedOut /\ NoThrow /\ errBuf # <<>>
  \/ Happened("error") /\ child.state = "closed"


\* Nothing was spawned and the remembered handle is the one the call found.
NoSideEffect == ollamaProc = ensure["health"].procAtCall /\ Len(spawns) = ensure["health"].spawnsAtCall

\* C18: ensureOllamaRunning probes first; if the host is reachable it returns
\* {reachable: true, started: false} without spawning; if it is not and
\* neither the caller asked for a start nor autostart is configured, it
\* returns {reachable: false, started: false} without spawning and without
\* changing the remembered handle.
C18_ProbeFirst ==
  /\ ensure["health"].pc = "probe" => NoSideEffect
  /\ (ensure["health"].pc = "returned" /\ ensure["health"].probe = "ok") =>
       ensure["health"].ret = Returned(TRUE, FALSE) /\ NoSideEffect
  /\ (ensure["health"].pc = "returned" /\ ensure["health"].probe = "failed"
        /\ ~ensure["health"].maybeStart /\ ~ensure["health"].autostart) =>
       ensure["health"].ret = Returned(FALSE, FALSE) /\ NoSideEffect

\* A call without a start request found a local host unreachable and
\* returned.
C18_Witness ==
  /\ ensure["health"].pc = "returned"
  /\ ensure["health"].probe = "failed"
  /\ ~ensure["health"].maybeStart /\ ~ensure["health"].autostart
  /\ isLocalHost(CONFIG.OLLAMA_HOST)
  /\ ollamaProc = "null"

\* The loopback names among the hosts of the model.
LoopbackHosts == {"127.0.0.1", "localhost", "LocalHost"}

\* C19: `ollama serve` is spawned only when the host configured at that
\* moment is a loopback address; for a remote host nothing is spawned,
\* whatever the configuration updates and calls before.
C19_SpawnOnlyLocal ==
  /\ [](\A i \in 1..Len(spawns) : spawns[i] \in LoopbackHosts)
  /\ [][(spawns' # spawns \/ ollamaProc' # ollamaProc) =>
          CONFIG.OLLAMA_HOST.s \in LoopbackHosts]_vars

\* The process was spawned after the host had been set by POST /api/config.
C19_Witness == spawns = <<"LocalHost">> /\ configPosts > 0

\* C20: a failure to launch the host process, thrown by spawn or reported
\* later, ends in ensureOllamaRunning returning {reachable: false,
\* started: false}; nothing is thrown.
C20_LaunchFailureSwallowed ==
  ensure["health"].launch \in {"threw", "failed"} =>
    ensure["health"].pc = "returned" /\ ensure["health"].ret = Returned(FALSE, FALSE)

\* C21: while OLLAMA_AUTOSTART is false no step of the server spawns
\* `ollama serve`, and a streaming request whose probe does not find the host
\* reachable is answered 503.
C21_NoAutostartNoSpawn ==
  /\ [][~CONFIG.OLLAMA_AUTOSTART.b => ollamaProc' = ollamaProc]_vars
  /\ [][~CONFIG.OLLAMA_AUTOSTART.b /\ phase = "probe" /\ phase' # "probe" /\ status' # 200
         => status' = 503]_vars

\* C22: the model every invocation is given is one of the configured models,
\* and a request naming a model that is not listed gets the default model.
C22_ModelValidated ==
  (fn = "model" /\ ret.done) =>
    /\ ret.value.s \in {MODEL_OPTIONS[i] : i \in 1..Len(MODEL_OPTIONS)}
    /\ (args.model.t = "str"
          /\ args.model.s \notin {MODEL_OPTIONS[i] : i \in 1..Len(MODEL_OPTIONS)})
         => ret.value.s = DEFAULT_MODEL

\* The keys of the configuration object.
ConfigKeys == DOMAIN normalizeConfig(EmptyObject)

\* C23: at startup, for each key the effective value is the one of
\* config.json if config.json specifies the key, otherwise the one of the
\* environment variable if it is set, otherwise the built-in default (each
\* value as normalizeConfig reads it).
C23_LayeredConfig ==
  (fn = "load" /\ ret.done) =>
    \A k \in ConfigKeys :
      ret.value[k] =
        IF args.file.exists /\ k \in DOMAIN args.file.json
        THEN normalizeConfig(args.file.json)[k]
        ELSE IF k \in DOMAIN args.env
        THEN normalizeConfig(args.env)[k]
        ELSE normalizeConfig(EmptyObject)[k]

\* C24: every unit handed to an invocation has a non-empty trimmed text, and
\* the units are numbered 0..N-1 by their position among the retained
\* paragraphs.
C24_UnitsNonEmpty ==
  \A k \in 1..Min(nextToStart, Len(jobs)) :
    \A j \in 1..Len(jobs[k]) :
      /\ jobs[k][j].text # <<>>
      /\ jobs[k][j].index \in 0..(total - 1)
      /\ jobs[k][j].text = Trim(paragraphs[jobs[k][j].index + 1])

\* C25: at every moment (after start and after any POST /api/config) the
\* concurrency limit is a positive integer, so that launchNext can start an
\* invocation when none is in flight.
C25_PositiveIntegerLimit ==
  /\ CONFIG.OLLAMA_CONCURRENCY.t = "num"
  /\ CONFIG.OLLAMA_CONCURRENCY.n >= 2
  /\ CONFIG.OLLAMA_CONCURRENCY.n % 2 = 0
  /\ LessThan(0, CONFIG.OLLAMA_CONCURRENCY)

\* C26: a call returns started: true only if it attempted a launch itself;
\* in the polling that follows, {reachable: true, started: true} is returned
\* as soon as a probe succeeds (and only then), and {reachable: false,
\* started: true} only once the start timeout has passed.
C26_PollOutcome ==
  \A c \in Callers :
    /\ (ensure[c].pc = "returned" /\ ensure[c].ret.started) =>
         /\ ensure[c].launch # "none"
         /\ ensure[c].ret.reachable => ensure[c].polled = "ok"
         /\ ~ensure[c].ret.reachable => ensure[c].clock = "elapsed"
    /\ ensure[c].polled = "ok" =>
         ensure[c].pc = "returned" /\ ensure[c].ret = Returned(TRUE, TRUE)

\* C27: while the process the server spawned is running, no step spawns
\* another one, however the calls interleave; and a call that needs a start
\* when that process runs no more (no launch being under way either)
\* launches a new one before it waits.
C27_OneServeProcess ==
  /\ [][serveRunning => spawns' = spawns]_vars
  /\ [][\A c \in Callers :
          (/\ ensure[c].pc = "probe" /\ ensure'[c].pc = "wait"
           /\ ~serveRunning
           /\ \A d \in Callers : ensure[d].launch # "failing")
            => ensure'[c].launch # "none"]_vars

\* C28: the jobs launched so far are exactly jobs 0..nextToStart-1, each with
\* one invocation (running or settled, never both); every unit belongs to
\* exactly one job, one job per unit in grammar mode; nextToStart never
\* decreases and the jobs are not changed once streaming began; and when the
\* stream is closed every job has been launched and has settled.
C28_DispatchedOnce ==
  /\ [](status = 200 =>
          /\ pending \cup DOMAIN outcome = 0..(nextToStart - 1)
          /\ pending \cap DOMAIN outcome = {}
          /\ inFlight = Cardinality(pending)
          /\ DOMAIN usedConfig = 0..(nextToStart - 1)
          /\ nextToStart <= Len(jobs)
          /\ \A idx \in 0..(total - 1) :
               Cardinality({k \in 1..Len(jobs) : idx \in IndexSet(jobs[k])}) = 1
          /\ mode = "fix" => Len(jobs) = total)
  /\ [](StreamClosed =>
          nextToStart = Len(jobs) /\ DOMAIN outcome = 0..(Len(jobs) - 1))
  /\ [][nextToStart' >= nextToStart]_vars
  /\ [][status = 200 => jobs' = jobs /\ paragraphs' = paragraphs]_vars

\* C28 witness: a translation request of three units in two chunks is closed
\* after two invocations.
C28_Witness ==
  /\ StreamClosed
  /\ mode = "translate"
  /\ total = 3
  /\ Len(jobs) = 2
  /\ nextToStart = 2

\* C29: a result in the slot at nextToEmit is written to the sink, by timers
\* alone (an emitReady run is suspended at its pacing delay whenever such a
\* result waits); every emit phase ends; and the step that ends an emit phase
\* runs the launch phase, leaving no job unlaunched while inFlight is below
\* the limit.
C29_EarlyEmit ==
  /\ [](ReadyToEmit(results) => emitters > 0)
  /\ \A i \in 0..(MaxParas - 1) :
       (nextToEmit = i /\ ReadyToEmit(results)) ~> (Len(sink) > i)
  /\ (emitters > 0) ~> (emitters = 0)
  /\ [][(/\ status' = 200
         /\ sink' = sink
         /\ CONFIG' = CONFIG
         /\ (results' # results \/ emitters' < emitters))
          => ~(/\ nextToStart' < Len(jobs')
               /\ LessThan(inFlight', CONFIG'.OLLAMA_CONCURRENCY))]_vars

\* C29 witness: the result of unit 1 waits in its slot behind the pacing
\* delay while the invocation of unit 2 is still running.
C29_Witness ==
  /\ total = 3
  /\ nextToEmit = 1
  /\ ReadyToEmit(results)
  /\ emitters > 0
  /\ pending = {2}

\* The lines request r may write: results of its own units, in its own mode.
OwnLine(r, line) ==
  /\ line.index \in 0..(Len(reqs[r].paragraphs) - 1)
  /\ IF reqs[r].mode = "fix"
     THEN "original" \in DOMAIN line /\ line.original = <<UnitChar(r)>>
     ELSE "translated" \in DOMAIN line

\* C30: a callback of one request leaves the dispatcher state (slot array and
\* counters), the pending invocations and the response of the other request
\* as they are; and each request's state is that of a dispatcher running
\* alone: its lines are 0, 1, 2, ... of its own units, nextToEmit counts its
\* lines, inFlight its pending invocations, the slots and cursors stay within
\* its own units and jobs, and its response ends with all its lines written.
C30_NoSharing ==
  /\ [][\A r \in Requests :
          actor' # r => DispatcherOf(r)' = DispatcherOf(r) /\ reqs'[r] = reqs[r]]_vars
  /\ [](\A r \in Requests :
          LET q == reqs[r]
              d == DispatcherOf(r)
          IN  /\ \A i \in 1..Len(q.sink) : q.sink[i].index = i - 1 /\ OwnLine(r, q.sink[i])
              /\ q.begun => d.nextToEmit = Len(q.sink)
              /\ q.begun => d.inFlight = Cardinality(q.pending)
              /\ q.begun => d.nextToStart <= Len(q.jobs)
              /\ q.begun => DOMAIN d.results \subseteq 0..(Len(q.paragraphs) - 1)
              /\ q.begun => \A i \in DOMAIN d.results : OwnLine(r, d.results[i])
              /\ q.ended => Len(q.sink) = Len(q.paragraphs))

\* C30 witness: request A has written both its lines while request B, begun
\* before A finished, has an invocation running and has written nothing.
C30_Witness ==
  /\ Len(reqs["A"].sink) = 2
  /\ reqs["B"].begun
  /\ reqs["B"].pending # {}
  /\ reqs["B"].sink = <<>>
  /\ DispatcherOf("A").nextToEmit = 2
  /\ DispatcherOf("B").nextToEmit = 0

\* The indices whose invocation has completed: those of the settled jobs.
CompletedIndices == UNION {IndexSet(jobs[k + 1]) : k \in DOMAIN outcome}

\* C31: in every state of a request inFlight is at least 0, nextToEmit is
\* between 0 and N, nextToEmit is at most the number of indices whose
\* invocation has completed, and every index below nextToEmit has a filled
\* slot whose content is the line written for it; nextToEmit moves one index
\* at a time, over a slot that is filled when it is passed.
C31_CountersInBounds ==
  /\ [](/\ inFlight >= 0
        /\ 0 <= nextToEmit
        /\ nextToEmit <= total
        /\ nextToEmit <= Cardinality(CompletedIndices)
        /\ \A i \in 0..(nextToEmit - 1) :
             /\ i \in DOMAIN results
             /\ i + 1 <= Len(sink)
             /\ sink[i + 1] = results[i])
  /\ [][nextToEmit' # nextToEmit =>
          /\ nextToEmit' = nextToEmit + 1
          /\ nextToEmit \in DOMAIN results'
          /\ sink' = Append(sink, results'[nextToEmit])]_vars

\* C31 witness: a translation request of three units: the chunk of units 0
\* and 1 has completed and both its lines are written, the invocation of the
\* chunk of unit 2 is running.
C31_Witness ==
  /\ mode = "translate"
  /\ total = 3
  /\ nextToEmit = 2
  /\ inFlight = 1
  /\ Cardinality(CompletedIndices) = 2

\* C32: a slot that holds a result keeps it in every step; a step fills
\* slots only when the invocation of one job settles in it, and the slots it
\* fills are those of the indices of that job, each holding a result with its
\* own index: an output naming the index of another chunk leaves that slot
\* as it was.
C32_WriteOnce ==
  [][/\ \A i \in DOMAIN results : i \in DOMAIN results' /\ results'[i] = results[i]
     /\ results' # results =>
          \E k \in pending \ pending' :
            /\ (pending \ pending') = {k}
            /\ DOMAIN results' \ DOMAIN results \subseteq IndexSet(jobs[k + 1])
            /\ \A i \in DOMAIN results' : results'[i].index = i]_vars

\* C32 witness: a translation request of three chunks of one unit: the
\* invocation of the chunk of index 1 resolved (with an output among those
\* naming every index, or index 0) and slot 1 alone is filled, the chunks of
\* indices 0 and 2 are still running.
C32_Witness ==
  /\ mode = "translate"
  /\ Len(jobs) = 3
  /\ DOMAIN outcome = {1}
  /\ outcome[1] = "ok"
  /\ DOMAIN results = {1}
  /\ results[1].translated = <<"b">>
  /\ pending = {0, 2}

\* C33: when the 'close' event comes after the timer fired, the call is
\* rejected with ollama_run_timeout by that event, whatever the exit code and
\* the output; once the process has closed or failed with an 'error' event
\* the timer is not armed any more, and from then on timedOut is not set and
\* no signal is sent to the process.
C33_TimeoutPrecedence ==
  /\ [][(child.state # "closed" /\ child'.state = "closed" /\ timer = "fired") =>
          /\ promise.state = "pending"
          /\ promise' = [state |-> "rejected", error |-> TimeoutError]]_vars
  /\ [](child.state \in {"closed", "failed"} => timer \in {"cleared", "fired"})
  /\ [][child.state \in {"closed", "failed"} =>
          /\ child'.signalled = child.signalled
          /\ timedOut' = timedOut
          /\ timer' = timer
          /\ (Happened("timeout")' <=> Happened("timeout"))]_vars

\* C33 witness: the timer fired, then the process closed with exit code 0
\* and its output complete, and the call is rejected with the timeout.
C33_Witness ==
  /\ ClosedWith("0")
  /\ Happened("timeout")
  /\ Len(outBuf) = MaxChunks
  /\ promise = [state |-> "rejected", error |-> TimeoutError]

\* The body asks for persistence: parseBool(body.persist || false).
PersistAsked(reqBody) ==
  parseBool(OrElse(Get(reqBody, "persist"), Bool(FALSE)), FALSE).b

\* C34: after POST /api/config every setting the body does not name has the
\* value it had before; and when persistence is asked for and the write of
\* config.json fails, the response is 500 config_write_error, nothing was
\* written and CONFIG is the merged configuration.
C34_MergeKeepsAbsent ==
  (fn = "post" /\ ret.done) =>
    /\ \A k \in ConfigKeys \ DOMAIN args.body : ret.value.CONFIG[k] = args.config[k]
    /\ (PersistAsked(args.body) /\ args.writeThrows) =>
         /\ ret.value.status = 500
         /\ ret.value.error = "config_write_error"
         /\ ~ret.value.written
         /\ ret.value.CONFIG = normalizeConfig(Spread(args.config, args.body))

\* A setting the caller did not give: no options object, or no such key.
NotGiven(raw, key) == ~IsObject(raw) \/ Get(raw, key) = Undef

\* C35: for every raw input normalizeChunkOptions returns maxParagraphs as an
\* integer from 1 to 20, 1 when it is not given, and maxChars as an integer
\* from 0 to 20000, 0 when it is not given; and with maxChars = 0
\* chunkTranslationItems cuts by the paragraph limit alone: every chunk but
\* the last has exactly maxParagraphs units, whatever their lengths.
C35_ChunkOptionRanges ==
  /\ (fn = "options" /\ ret.done) =>
       /\ ret.value.maxParagraphs \in 1..20
       /\ ret.value.maxChars \in 0..20000
       /\ NotGiven(args.raw, "maxParagraphs") => ret.value.maxParagraphs = 1
       /\ NotGiven(args.raw, "maxChars") => ret.value.maxChars = 0
  /\ (ChunkReturned /\ args.opts.maxChars = 0) =>
       \A c \in 1..Len(ret.value) :
         Len(ret.value[c]) =
           IF c < Len(ret.value) THEN args.opts.maxParagraphs
           ELSE Len(args.items) - (c - 1) * args.opts.maxParagraphs

\* C35 witness: both settings were given beyond their caps and came back as
\* the caps.
C35_Witness ==
  /\ fn = "options"
  /\ ret.done
  /\ args.raw = [maxParagraphs |-> Whole(25), maxChars |-> Whole(20001)]
  /\ ret.value = [maxParagraphs |-> 20, maxChars |-> 20000]

====
